---------------------------- MODULE Spec2Model ----------------------------
(***************************************************************************)
(* Command safety and execution pipeline of the Personal AI Agent:         *)
(* risk classifier, sandbox policy, privilege checker, confirmation gate,  *)
(* backup manager, command executor, decision orchestrator and the entry   *)
(* points that compose them.                                               *)
(*                                                                         *)
(* Strings the code inspects character by character are sequences of       *)
(* one-character strings; Chars maps each command text of the corpus to    *)
(* its characters.                                                         *)
(***************************************************************************)
EXTENDS Integers, Sequences, FiniteSets, TLC

(***************************************************************************)
(* Python str and re primitives used by the classifiers                    *)
(***************************************************************************)

\* The command texts the model draws its inputs from, with their characters.
Chars ==
    "" :> <<>> @@
    "Get-Process" :> <<"G", "e", "t", "-", "P", "r", "o", "c", "e", "s", "s">> @@
    "Remove-Item test.txt" :> <<"R", "e", "m", "o", "v", "e", "-", "I", "t", "e", "m", " ", "t", "e", "s", "t", ".", "t", "x", "t">> @@
    "Remove-Item -Recurse C:\\" :> <<"R", "e", "m", "o", "v", "e", "-", "I", "t", "e", "m", " ", "-", "R", "e", "c", "u", "r", "s", "e", " ", "C", ":", "\\">> @@
    "takeown /f C:\\Windows" :> <<"t", "a", "k", "e", "o", "w", "n", " ", "/", "f", " ", "C", ":", "\\", "W", "i", "n", "d", "o", "w", "s">> @@
    "del C:\\Windows\\System32\\a" :> <<"d", "e", "l", " ", "C", ":", "\\", "W", "i", "n", "d", "o", "w", "s", "\\", "S", "y", "s", "t", "e", "m", "3", "2", "\\", "a">> @@
    "format c:" :> <<"f", "o", "r", "m", "a", "t", " ", "c", ":">> @@
    "Format-Volume D" :> <<"F", "o", "r", "m", "a", "t", "-", "V", "o", "l", "u", "m", "e", " ", "D">> @@
    " Get-Date " :> <<" ", "G", "e", "t", "-", "D", "a", "t", "e", " ">> @@
    "Get-Date" :> <<"G", "e", "t", "-", "D", "a", "t", "e">> @@
    "Set-Service x" :> <<"S", "e", "t", "-", "S", "e", "r", "v", "i", "c", "e", " ", "x">> @@
    "<backtick>Get-Date<backtick>" :> <<"<backtick>", "G", "e", "t", "-", "D", "a", "t", "e", "<backtick>">> @@
    "Stop-Service -Name 'x' -Force" :> <<"S", "t", "o", "p", "-", "S", "e", "r", "v", "i", "c", "e", " ", "-", "N", "a", "m", "e", " ", "'", "x", "'", " ", "-", "F", "o", "r", "c", "e">> @@
    "Remove-Item -Path \"a\" -Force" :> <<"R", "e", "m", "o", "v", "e", "-", "I", "t", "e", "m", " ", "-", "P", "a", "t", "h", " ", "\"", "a", "\"", " ", "-", "F", "o", "r", "c", "e">> @@
    "uninstall.exe /S" :> <<"u", "n", "i", "n", "s", "t", "a", "l", "l", ".", "e", "x", "e", " ", "/", "S">> @@
    "Get-Process; diskpart" :> <<"G", "e", "t", "-", "P", "r", "o", "c", "e", "s", "s", ";", " ", "d", "i", "s", "k", "p", "a", "r", "t">> @@
    "reg delete HKLM\\x" :> <<"r", "e", "g", " ", "d", "e", "l", "e", "t", "e", " ", "H", "K", "L", "M", "\\", "x">> @@
    "Get-Help Format-Volume" :> <<"G", "e", "t", "-", "H", "e", "l", "p", " ", "F", "o", "r", "m", "a", "t", "-", "V", "o", "l", "u", "m", "e">> @@
    "echo hi" :> <<"e", "c", "h", "o", " ", "h", "i">> @@
    "reg add HKCU\\x" :> <<"r", "e", "g", " ", "a", "d", "d", " ", "H", "K", "C", "U", "\\", "x">> @@
    "Set-Service" :> <<"S", "e", "t", "-", "S", "e", "r", "v", "i", "c", "e">> @@
    "missing file in use" :> <<"m", "i", "s", "s", "i", "n", "g", " ", "f", "i", "l", "e", " ", "i", "n", " ", "u", "s", "e">> @@
    "timed out: Access is denied" :> <<"t", "i", "m", "e", "d", " ", "o", "u", "t", ":", " ", "A", "c", "c", "e", "s", "s", " ", "i", "s", " ", "d", "e", "n", "i", "e", "d">> @@
    "ok" :> <<"o", "k">> @@
    "Access is denied" :> <<"A", "c", "c", "e", "s", "s", " ", "i", "s", " ", "d", "e", "n", "i", "e", "d">> @@
    "cannot find path" :> <<"c", "a", "n", "n", "o", "t", " ", "f", "i", "n", "d", " ", "p", "a", "t", "h">> @@
    "boom" :> <<"b", "o", "o", "m">> @@
    "cannot find powershell" :> <<"c", "a", "n", "n", "o", "t", " ", "f", "i", "n", "d", " ", "p", "o", "w", "e", "r", "s", "h", "e", "l", "l">> @@
    "Command timed out after " :> <<"C", "o", "m", "m", "a", "n", "d", " ", "t", "i", "m", "e", "d", " ", "o", "u", "t", " ", "a", "f", "t", "e", "r", " ">> @@
    " seconds" :> <<" ", "s", "e", "c", "o", "n", "d", "s">> @@
    "1" :> <<"1">> @@
    "30" :> <<"3", "0">>

\* The commands the intent translator or a caller may hand to the pipeline.
Commands ==
    { "", "Get-Process", "Remove-Item test.txt", "Remove-Item -Recurse C:\\",
      "takeown /f C:\\Windows", "del C:\\Windows\\System32\\a", "format c:",
      "Format-Volume D", " Get-Date ", "Get-Date", "Set-Service x",
      "<backtick>Get-Date<backtick>", "Get-Process; diskpart",
      "reg delete HKLM\\x", "Get-Help Format-Volume", "echo hi",
      "reg add HKCU\\x" }

\* The text with the given characters (inverse of Chars).
TextOf(cs) == CHOOSE s \in DOMAIN Chars : Chars[s] = cs

\* str.lower() on one character.
UpperToLower ==
    ("A" :> "a" @@ "B" :> "b" @@ "C" :> "c" @@ "D" :> "d" @@ "E" :> "e" @@
     "F" :> "f" @@ "G" :> "g" @@ "H" :> "h" @@ "I" :> "i" @@ "J" :> "j" @@
     "K" :> "k" @@ "L" :> "l" @@ "M" :> "m" @@ "N" :> "n" @@ "O" :> "o" @@
     "P" :> "p" @@ "Q" :> "q" @@ "R" :> "r" @@ "S" :> "s" @@ "T" :> "t" @@
     "U" :> "u" @@ "V" :> "v" @@ "W" :> "w" @@ "X" :> "x" @@ "Y" :> "y" @@
     "Z" :> "z")

LowerChar(c) == IF c \in DOMAIN UpperToLower THEN UpperToLower[c] ELSE c

\* str.lower()
Lower(s) == [i \in 1..Len(s) |-> LowerChar(s[i])]

\* The characters str.strip(), str.split() and the regex class \s treat as
\* white space.
Whitespace == {" ", "\t", "\n", "\r", "\f"}

RECURSIVE LStrip(_, _)
LStrip(s, drop) ==
    IF s # <<>> /\ Head(s) \in drop THEN LStrip(Tail(s), drop) ELSE s

RECURSIVE RStrip(_, _)
RStrip(s, drop) ==
    IF s # <<>> /\ s[Len(s)] \in drop
    THEN RStrip(SubSeq(s, 1, Len(s) - 1), drop)
    ELSE s

\* str.strip(chars): drop the characters of `drop` from both ends.
StripChars(s, drop) == RStrip(LStrip(s, drop), drop)

\* str.strip()
Strip(s) == StripChars(s, Whitespace)

\* str.startswith(prefix)
StartsWith(s, prefix) ==
    /\ Len(prefix) <= Len(s)
    /\ SubSeq(s, 1, Len(prefix)) = prefix

\* `sub in s` on strings.
Contains(s, sub) ==
    \E i \in 1..(Len(s) - Len(sub) + 1) : SubSeq(s, i, i + Len(sub) - 1) = sub

RECURSIVE TakeWord(_)
TakeWord(s) ==
    IF s = <<>> \/ Head(s) \in Whitespace
    THEN <<>>
    ELSE <<Head(s)>> \o TakeWord(Tail(s))

\* s.split()[0] if s.split() else "": the first white-space separated word.
FirstWord(s) == TakeWord(LStrip(s, Whitespace))

\* A regular expression is a sequence of elements: "one" matches one
\* character of cs, "plus" one or more characters of cs, "star" any number of
\* characters other than a newline (the pattern .*).
Lit(s) == [i \in 1..Len(s) |-> [op |-> "one", cs |-> {s[i]}]]
OneOf(set) == <<[op |-> "one", cs |-> set]>>
WsPlus == <<[op |-> "plus", cs |-> Whitespace]>>
AnyStar == <<[op |-> "star", cs |-> {}]>>

\* One character against one element's character set; with re.IGNORECASE
\* the comparison is on the lower-cased characters.
CharIn(c, cs, ignorecase) ==
    IF ignorecase
    THEN \E d \in cs : LowerChar(d) = LowerChar(c)
    ELSE c \in cs

\* Does pattern element i and all that follow match s from position j on?
RECURSIVE MatchFrom(_, _, _, _, _)
MatchFrom(pat, i, s, j, ignorecase) ==
    IF i > Len(pat) THEN TRUE
    ELSE CASE pat[i].op = "one" ->
                /\ j <= Len(s)
                /\ CharIn(s[j], pat[i].cs, ignorecase)
                /\ MatchFrom(pat, i + 1, s, j + 1, ignorecase)
           [] pat[i].op = "plus" ->
                /\ j <= Len(s)
                /\ CharIn(s[j], pat[i].cs, ignorecase)
                /\ \/ MatchFrom(pat, i, s, j + 1, ignorecase)
                   \/ MatchFrom(pat, i + 1, s, j + 1, ignorecase)
           [] pat[i].op = "star" ->
                \/ MatchFrom(pat, i + 1, s, j, ignorecase)
                \/ /\ j <= Len(s)
                   /\ s[j] # "\n"
                   /\ MatchFrom(pat, i, s, j + 1, ignorecase)

\* re.search(pat, s) / re.search(pat, s, re.IGNORECASE) is not None
Search(pat, s, ignorecase) ==
    \E j \in 1..(Len(s) + 1) : MatchFrom(pat, 1, s, j, ignorecase)

(***************************************************************************)
(* Risk classifier: CommandValidator                                       *)
(***************************************************************************)

CommandValidator_DANGEROUS_PATTERNS ==
    << Lit(<<"r", "m">>) \o WsPlus \o Lit(<<"-", "r", "f">>) \o WsPlus \o Lit(<<"/">>),
       Lit(<<"R", "e", "m", "o", "v", "e", "-", "I", "t", "e", "m">>) \o AnyStar \o Lit(<<"-", "R", "e", "c", "u", "r", "s", "e">>) \o AnyStar
           \o Lit(<<"C", ":", "\\">>),
       Lit(<<"f", "o", "r", "m", "a", "t">>) \o WsPlus
           \o OneOf({"a", "b", "c", "d", "e", "f", "g", "h", "i", "j", "k", "l", "m", "n", "o", "p", "q", "r", "s", "t", "u", "v", "w", "x", "y", "z", "A", "B", "C", "D", "E", "F", "G", "H", "I", "J", "K", "L", "M", "N", "O", "P", "Q", "R", "S", "T", "U", "V", "W", "X", "Y", "Z"})
           \o Lit(<<":">>),
       Lit(<<"r", "e", "g">>) \o WsPlus \o Lit(<<"d", "e", "l", "e", "t", "e">>) \o AnyStar \o Lit(<<"H", "K", "L", "M">>),
       Lit(<<"b", "c", "d", "e", "d", "i", "t">>),
       Lit(<<"d", "i", "s", "k", "p", "a", "r", "t">>),
       Lit(<<"c", "i", "p", "h", "e", "r">>) \o WsPlus \o Lit(<<"/", "w">>) >>

ADMIN_REQUIRED_KEYWORDS ==
    { <<"r", "e", "g", " ", "d", "e", "l", "e", "t", "e">>, <<"r", "e", "g", " ", "a", "d", "d">>,
      <<"s", "c", " ", "s", "t", "o", "p">>, <<"s", "c", " ", "d", "e", "l", "e", "t", "e">>,
      <<"n", "e", "t", " ", "s", "t", "o", "p">>, <<"n", "e", "t", " ", "s", "t", "a", "r", "t">>,
      <<"S", "e", "t", "-", "S", "e", "r", "v", "i", "c", "e">>,
      <<"R", "e", "m", "o", "v", "e", "-", "S", "e", "r", "v", "i", "c", "e">> }

CommandValidator_SAFE_COMMANDS ==
    { <<"G", "e", "t", "-", "P", "r", "o", "c", "e", "s", "s">>, <<"G", "e", "t", "-", "S", "e", "r", "v", "i", "c", "e">>, <<"G", "e", "t", "-", "C", "h", "i", "l", "d", "I", "t", "e", "m">>,
      <<"T", "e", "s", "t", "-", "P", "a", "t", "h">>, <<"G", "e", "t", "-", "C", "o", "n", "t", "e", "n", "t">>, <<"G", "e", "t", "-", "L", "o", "c", "a", "t", "i", "o", "n">>,
      <<"G", "e", "t", "-", "D", "a", "t", "e">>, <<"G", "e", "t", "-", "H", "e", "l", "p">> }

\* The alternatives of r'Remove-Item|rm|del\s+'
DeletePatterns ==
    { Lit(<<"R", "e", "m", "o", "v", "e", "-", "I", "t", "e", "m">>), Lit(<<"r", "m">>), Lit(<<"d", "e", "l">>) \o WsPlus }

\* CommandValidator.requires_admin(command)
requires_admin(command) ==
    \E keyword \in ADMIN_REQUIRED_KEYWORDS :
        Contains(Lower(command), Lower(keyword))

\* A classifier that looks for an allowlisted safe command before it looks
\* for the dangerous signatures.
validate_allowlist_first(command) ==
    IF \E safe_cmd \in CommandValidator_SAFE_COMMANDS :
           StartsWith(Strip(command), safe_cmd)
    THEN [is_safe |-> TRUE, warnings |-> <<>>, risk_level |-> "safe"]
    ELSE IF \E k \in DOMAIN CommandValidator_DANGEROUS_PATTERNS :
                Search(CommandValidator_DANGEROUS_PATTERNS[k], command, TRUE)
    THEN [is_safe |-> FALSE,
          warnings |-> <<"Command contains dangerous operation">>,
          risk_level |-> "dangerous"]
    ELSE [is_safe |-> TRUE, warnings |-> <<>>, risk_level |-> "caution"]

\* A classifier that rates caution only the commands that delete or touch
\* the registry, and returns the admin warning with tier safe.
validate_admin_is_safe(command) ==
    IF \E k \in DOMAIN CommandValidator_DANGEROUS_PATTERNS :
           Search(CommandValidator_DANGEROUS_PATTERNS[k], command, TRUE)
    THEN [is_safe |-> FALSE,
          warnings |-> <<"Command contains dangerous operation">>,
          risk_level |-> "dangerous"]
    ELSE IF \E safe_cmd \in CommandValidator_SAFE_COMMANDS :
                StartsWith(Strip(command), safe_cmd)
    THEN [is_safe |-> TRUE, warnings |-> <<>>, risk_level |-> "safe"]
    ELSE LET warnings == IF requires_admin(command)
                         THEN <<"Requires administrator privileges">>
                         ELSE <<>>
         IN  IF \E p \in DeletePatterns : Search(p, command, TRUE)
             THEN [is_safe |-> TRUE,
                   warnings |-> Append(warnings,
                                    "This command will delete files/folders"),
                   risk_level |-> "caution"]
             ELSE IF \/ Contains(Lower(command), <<"r", "e", "g", " ">>)
                     \/ Contains(Lower(command), <<"r", "e", "g", "i", "s", "t", "r", "y">>)
             THEN [is_safe |-> TRUE,
                   warnings |-> Append(warnings,
                                    "This command modifies the Windows registry"),
                   risk_level |-> "caution"]
             ELSE [is_safe |-> TRUE, warnings |-> warnings, risk_level |-> "safe"]

\* CommandValidator.validate(command): (is_safe, warnings, risk_level)
validate(command) ==
    IF \E k \in DOMAIN CommandValidator_DANGEROUS_PATTERNS :
           Search(CommandValidator_DANGEROUS_PATTERNS[k], command, TRUE)
    THEN [is_safe |-> FALSE,
          warnings |-> <<"Command contains dangerous operation">>,
          risk_level |-> "dangerous"]
    ELSE IF \E safe_cmd \in CommandValidator_SAFE_COMMANDS :
                StartsWith(Strip(command), safe_cmd)
    THEN [is_safe |-> TRUE, warnings |-> <<>>, risk_level |-> "safe"]
    ELSE LET warnings == IF requires_admin(command)
                         THEN <<"Requires administrator privileges">>
                         ELSE <<>>
         IN  IF \E p \in DeletePatterns : Search(p, command, TRUE)
             THEN [is_safe |-> TRUE,
                   warnings |-> Append(warnings,
                                    "This command will delete files/folders"),
                   risk_level |-> "caution"]
             ELSE IF \/ Contains(Lower(command), <<"r", "e", "g", " ">>)
                     \/ Contains(Lower(command), <<"r", "e", "g", "i", "s", "t", "r", "y">>)
             THEN [is_safe |-> TRUE,
                   warnings |-> Append(warnings,
                                    "This command modifies the Windows registry"),
                   risk_level |-> "caution"]
             ELSE IF warnings # <<>>
             THEN [is_safe |-> TRUE, warnings |-> warnings,
                   risk_level |-> "caution"]
             ELSE [is_safe |-> TRUE, warnings |-> <<>>, risk_level |-> "safe"]

(***************************************************************************)
(* Sandbox policy: CommandSandbox                                          *)
(***************************************************************************)

PROTECTED_PATHS ==
    { <<"C", ":", "\\", "W", "i", "n", "d", "o", "w", "s", "\\", "S", "y", "s", "t", "e", "m", "3", "2">>,
      <<"C", ":", "\\", "W", "i", "n", "d", "o", "w", "s", "\\", "S", "y", "s", "W", "O", "W", "6", "4">>,
      <<"C", ":", "\\", "W", "i", "n", "d", "o", "w", "s", "\\", "W", "i", "n", "S", "x", "S">>,
      <<"C", ":", "\\", "P", "r", "o", "g", "r", "a", "m", " ", "F", "i", "l", "e", "s", "\\", "W", "i", "n", "d", "o", "w", "s", "A", "p", "p", "s">>,
      <<"C", ":", "\\", "W", "i", "n", "d", "o", "w", "s", "\\", "B", "o", "o", "t">> }

\* The patterns are searched in the lower-cased command without
\* re.IGNORECASE, the capitals of a pattern included as written.
CommandSandbox_DANGEROUS_PATTERNS ==
    << Lit(<<"f", "o", "r", "m", "a", "t">>) \o WsPlus
           \o OneOf({"a", "b", "c", "d", "e", "f", "g", "h", "i", "j", "k", "l", "m", "n", "o", "p", "q", "r", "s", "t", "u", "v", "w", "x", "y", "z"}) \o Lit(<<":">>),
       Lit(<<"c", "i", "p", "h", "e", "r">>) \o WsPlus \o Lit(<<"/", "w">>),
       Lit(<<"t", "a", "k", "e", "o", "w", "n">>) \o WsPlus \o Lit(<<"/", "f">>) \o AnyStar
           \o Lit(<<"\\", "w", "i", "n", "d", "o", "w", "s">>),
       Lit(<<"i", "c", "a", "c", "l", "s">>) \o AnyStar \o Lit(<<"\\", "w", "i", "n", "d", "o", "w", "s">>) \o AnyStar
           \o Lit(<<"/", "g", "r", "a", "n", "t">>),
       Lit(<<"r", "e", "g">>) \o WsPlus \o Lit(<<"d", "e", "l", "e", "t", "e">>) \o AnyStar
           \o Lit(<<"\\", "w", "i", "n", "d", "o", "w", "s">>),
       Lit(<<"R", "e", "m", "o", "v", "e", "-", "I", "t", "e", "m">>) \o AnyStar \o Lit(<<"-", "R", "e", "c", "u", "r", "s", "e">>) \o AnyStar
           \o Lit(<<"C", ":", "\\", "\\", "W", "i", "n", "d", "o", "w", "s">>),
       Lit(<<"r", "m">>) \o WsPlus \o Lit(<<"-", "r", "f">>) \o WsPlus \o Lit(<<"/">>),
       Lit(<<"d", "e", "l">>) \o WsPlus \o Lit(<<"/">>) \o OneOf({"f", "q", "s"}) \o WsPlus
           \o Lit(<<"C", ":", "\\", "\\", "W", "i", "n", "d", "o", "w", "s">>),
       Lit(<<"r", "d">>) \o WsPlus \o Lit(<<"/", "s">>) \o WsPlus \o Lit(<<"/", "q">>)
           \o AnyStar \o Lit(<<"C", ":", "\\", "\\", "W", "i", "n", "d", "o", "w", "s">>) >>

CommandSandbox_SAFE_COMMANDS ==
    { <<"g", "e", "t", "-", "l", "o", "c", "a", "t", "i", "o", "n">>, <<"g", "e", "t", "-", "c", "h", "i", "l", "d", "i", "t", "e", "m">>, <<"g", "e", "t", "-", "c", "o", "n", "t", "e", "n", "t">>,
      <<"g", "e", "t", "-", "p", "r", "o", "c", "e", "s", "s">>, <<"g", "e", "t", "-", "s", "e", "r", "v", "i", "c", "e">>, <<"g", "e", "t", "-", "c", "o", "m", "p", "u", "t", "e", "r", "i", "n", "f", "o">>,
      <<"g", "e", "t", "-", "d", "a", "t", "e">>, <<"g", "e", "t", "-", "h", "e", "l", "p">>, <<"g", "e", "t", "-", "i", "t", "e", "m">>, <<"g", "e", "t", "-", "i", "t", "e", "m", "p", "r", "o", "p", "e", "r", "t", "y">>,
      <<"s", "e", "l", "e", "c", "t", "-", "o", "b", "j", "e", "c", "t">>, <<"w", "h", "e", "r", "e", "-", "o", "b", "j", "e", "c", "t">>, <<"f", "o", "r", "m", "a", "t", "-", "t", "a", "b", "l", "e">>,
      <<"f", "o", "r", "m", "a", "t", "-", "l", "i", "s", "t">>, <<"m", "e", "a", "s", "u", "r", "e", "-", "o", "b", "j", "e", "c", "t">>, <<"s", "o", "r", "t", "-", "o", "b", "j", "e", "c", "t">>,
      <<"t", "e", "s", "t", "-", "p", "a", "t", "h">>, <<"g", "e", "t", "-", "a", "p", "p", "x", "p", "a", "c", "k", "a", "g", "e">>, <<"g", "e", "t", "-", "w", "m", "i", "o", "b", "j", "e", "c", "t">>,
      <<"s", "y", "s", "t", "e", "m", "i", "n", "f", "o">>, <<"i", "p", "c", "o", "n", "f", "i", "g">>, <<"n", "e", "t", "s", "t", "a", "t">>, <<"t", "a", "s", "k", "l", "i", "s", "t">> }

HIGH_RISK_COMMANDS ==
    { <<"f", "o", "r", "m", "a", "t", "-", "v", "o", "l", "u", "m", "e">>, <<"c", "l", "e", "a", "r", "-", "d", "i", "s", "k">>, <<"i", "n", "i", "t", "i", "a", "l", "i", "z", "e", "-", "d", "i", "s", "k">>,
      <<"r", "e", "m", "o", "v", "e", "-", "p", "a", "r", "t", "i", "t", "i", "o", "n">>, <<"d", "i", "s", "a", "b", "l", "e", "-", "w", "i", "n", "d", "o", "w", "s", "u", "p", "d", "a", "t", "e">>,
      <<"s", "e", "t", "-", "e", "x", "e", "c", "u", "t", "i", "o", "n", "p", "o", "l", "i", "c", "y", " ", "u", "n", "r", "e", "s", "t", "r", "i", "c", "t", "e", "d">> }

\* The words validate_command takes for a destructive operation.
DestructiveWords ==
    { <<"r", "e", "m", "o", "v", "e">>, <<"d", "e", "l", "e", "t", "e">>, <<"d", "e", "l", " ">>, <<"r", "d", " ">>, <<"r", "m", " ">> }

\* CommandSandbox.validate_command(command) with the given custom denylist
\* (a set of character sequences); the custom allowlist is not read.
validate_command(command, custom_denylist) ==
    LET command_lower == Strip(Lower(command))
        first_word == FirstWord(command_lower)
        is_safe_cmd == \E safe_cmd \in CommandSandbox_SAFE_COMMANDS :
                           Contains(first_word, safe_cmd)
    IN  IF \E k \in DOMAIN CommandSandbox_DANGEROUS_PATTERNS :
               Search(CommandSandbox_DANGEROUS_PATTERNS[k], command_lower, FALSE)
        THEN [allowed |-> FALSE, risk_level |-> "CRITICAL",
              requires_extra_confirmation |-> FALSE,
              reason |-> "Matches dangerous pattern - this command could cause severe system damage"]
        ELSE IF /\ \E path \in PROTECTED_PATHS :
                       Contains(command_lower, Lower(path))
                /\ \E word \in DestructiveWords :
                       Contains(command_lower, word)
        THEN [allowed |-> FALSE, risk_level |-> "CRITICAL",
              requires_extra_confirmation |-> FALSE,
              reason |-> "Targets protected system path with destructive operation"]
        ELSE IF \E denied_cmd \in custom_denylist :
                    Contains(command_lower, Lower(denied_cmd))
        THEN [allowed |-> FALSE, risk_level |-> "HIGH",
              requires_extra_confirmation |-> FALSE,
              reason |-> "Command in user denylist"]
        ELSE IF \E high_risk \in HIGH_RISK_COMMANDS :
                    Contains(command_lower, high_risk)
        THEN [allowed |-> TRUE, risk_level |-> "HIGH",
              requires_extra_confirmation |-> TRUE,
              reason |-> "High-risk command requires explicit approval"]
        ELSE IF is_safe_cmd
        THEN [allowed |-> TRUE, risk_level |-> "LOW",
              requires_extra_confirmation |-> FALSE,
              reason |-> "Safe read-only command"]
        ELSE [allowed |-> TRUE, risk_level |-> "MEDIUM",
              requires_extra_confirmation |-> FALSE,
              reason |-> "Command passed safety checks but is not in safe list"]

(***************************************************************************)
(* Texts                                                                   *)
(*                                                                         *)
(* A text the code builds by concatenation or an f-string (stdout, stderr, *)
(* messages) is the sequence of its pieces; the empty text is <<>>.        *)
(***************************************************************************)

Text(s) == IF s = "" THEN <<>> ELSE <<s>>

RECURSIVE CharsOfText(_)
CharsOfText(t) ==
    IF t = <<>> THEN <<>> ELSE Chars[Head(t)] \o CharsOfText(Tail(t))

\* sep.join(items) for a sequence of texts.
RECURSIVE Join(_, _)
Join(sep, items) ==
    IF items = <<>> THEN <<>>
    ELSE IF Len(items) = 1 THEN items[1]
    ELSE items[1] \o <<sep>> \o Join(sep, Tail(items))

(***************************************************************************)
(* Failure classifier: FailureClassifier                                   *)
(***************************************************************************)

\* self.patterns, in the insertion order the classifier iterates in.
FailurePatterns ==
    << [failure_type |-> "permission_denied",
        patterns |->
           << Lit(<<"a", "c", "c", "e", "s", "s">>) \o AnyStar
                  \o Lit(<<"d", "e", "n", "i", "e", "d">>),
              Lit(<<"p", "e", "r", "m", "i", "s", "s", "i", "o", "n">>) \o AnyStar
                  \o Lit(<<"d", "e", "n", "i", "e", "d">>),
              Lit(<<"u", "n", "a", "u", "t", "h", "o", "r", "i", "z", "e", "d">>),
              Lit(<<"f", "o", "r", "b", "i", "d", "d", "e", "n">>),
              Lit(<<"n", "o", "t">>) \o AnyStar
                  \o Lit(<<"a", "l", "l", "o", "w", "e", "d">>),
              Lit(<<"r", "e", "q", "u", "i", "r", "e", "s">>) \o AnyStar
                  \o Lit(<<"a", "d", "m", "i", "n", "i", "s", "t", "r", "a", "t", "o", "r">>) >>],
       [failure_type |-> "locked_file",
        patterns |->
           << Lit(<<"f", "i", "l", "e">>) \o AnyStar
                  \o Lit(<<"i", "n", " ", "u", "s", "e">>),
              Lit(<<"c", "a", "n", "n", "o", "t">>) \o AnyStar
                  \o Lit(<<"a", "c", "c", "e", "s", "s">>) \o AnyStar
                  \o Lit(<<"f", "i", "l", "e">>),
              Lit(<<"b", "e", "i", "n", "g", " ", "u", "s", "e", "d", " ", "b", "y", " ", "a", "n", "o", "t", "h", "e", "r", " ", "p", "r", "o", "c", "e", "s", "s">>),
              Lit(<<"f", "i", "l", "e">>) \o AnyStar
                  \o Lit(<<"l", "o", "c", "k", "e", "d">>),
              Lit(<<"s", "h", "a", "r", "i", "n", "g", " ", "v", "i", "o", "l", "a", "t", "i", "o", "n">>) >>],
       [failure_type |-> "service_dependency",
        patterns |->
           << Lit(<<"s", "e", "r", "v", "i", "c", "e">>) \o AnyStar
                  \o Lit(<<"n", "o", "t">>) \o AnyStar
                  \o Lit(<<"r", "u", "n", "n", "i", "n", "g">>),
              Lit(<<"d", "e", "p", "e", "n", "d", "e", "n", "c", "y">>) \o AnyStar
                  \o Lit(<<"f", "a", "i", "l", "e", "d">>),
              Lit(<<"r", "e", "q", "u", "i", "r", "e", "s">>) \o AnyStar
                  \o Lit(<<"s", "e", "r", "v", "i", "c", "e">>),
              Lit(<<"d", "e", "p", "e", "n", "d", "e", "n", "t">>) \o AnyStar
                  \o Lit(<<"s", "e", "r", "v", "i", "c", "e">>),
              Lit(<<"c", "a", "n", "n", "o", "t">>) \o AnyStar
                  \o Lit(<<"s", "t", "a", "r", "t">>) \o AnyStar
                  \o Lit(<<"s", "e", "r", "v", "i", "c", "e">>) >>],
       [failure_type |-> "corrupt_uninstall",
        patterns |->
           << Lit(<<"u", "n", "i", "n", "s", "t", "a", "l", "l">>) \o AnyStar
                  \o Lit(<<"f", "a", "i", "l", "e", "d">>),
              Lit(<<"c", "o", "r", "r", "u", "p", "t">>) \o AnyStar
                  \o Lit(<<"i", "n", "s", "t", "a", "l", "l">>),
              Lit(<<"r", "e", "g", "i", "s", "t", "r", "y">>) \o AnyStar
                  \o Lit(<<"c", "o", "r", "r", "u", "p", "t">>),
              Lit(<<"m", "s", "i">>) \o AnyStar
                  \o Lit(<<"e", "r", "r", "o", "r">>),
              Lit(<<"p", "a", "c", "k", "a", "g", "e">>) \o AnyStar
                  \o Lit(<<"c", "o", "r", "r", "u", "p", "t">>) >>],
       [failure_type |-> "resource_in_use",
        patterns |->
           << Lit(<<"r", "e", "s", "o", "u", "r", "c", "e">>) \o AnyStar
                  \o Lit(<<"i", "n", " ", "u", "s", "e">>),
              Lit(<<"p", "o", "r", "t">>) \o AnyStar
                  \o Lit(<<"i", "n", " ", "u", "s", "e">>),
              Lit(<<"a", "d", "d", "r", "e", "s", "s">>) \o AnyStar
                  \o Lit(<<"i", "n", " ", "u", "s", "e">>),
              Lit(<<"a", "l", "r", "e", "a", "d", "y">>) \o AnyStar
                  \o Lit(<<"r", "u", "n", "n", "i", "n", "g">>) >>],
       [failure_type |-> "network_error",
        patterns |->
           << Lit(<<"n", "e", "t", "w", "o", "r", "k">>) \o AnyStar
                  \o Lit(<<"e", "r", "r", "o", "r">>),
              Lit(<<"c", "o", "n", "n", "e", "c", "t", "i", "o", "n">>) \o AnyStar
                  \o Lit(<<"f", "a", "i", "l", "e", "d">>),
              Lit(<<"t", "i", "m", "e", "o", "u", "t">>) \o AnyStar
                  \o Lit(<<"c", "o", "n", "n", "e", "c", "t">>),
              Lit(<<"h", "o", "s", "t">>) \o AnyStar
                  \o Lit(<<"u", "n", "r", "e", "a", "c", "h", "a", "b", "l", "e">>),
              Lit(<<"d", "n", "s">>) \o AnyStar
                  \o Lit(<<"f", "a", "i", "l", "e", "d">>) >>],
       [failure_type |-> "timeout",
        patterns |->
           << Lit(<<"t", "i", "m", "e", "o", "u", "t">>),
              Lit(<<"t", "i", "m", "e", "d", " ", "o", "u", "t">>),
              Lit(<<"o", "p", "e", "r", "a", "t", "i", "o", "n">>) \o AnyStar
                  \o Lit(<<"t", "o", "o">>) \o AnyStar
                  \o Lit(<<"l", "o", "n", "g">>) >>],
       [failure_type |-> "not_found",
        patterns |->
           << Lit(<<"n", "o", "t", " ", "f", "o", "u", "n", "d">>),
              Lit(<<"d", "o", "e", "s", " ", "n", "o", "t", " ", "e", "x", "i", "s", "t">>),
              Lit(<<"c", "a", "n", "n", "o", "t", " ", "f", "i", "n", "d">>),
              Lit(<<"n", "o", " ", "s", "u", "c", "h">>),
              Lit(<<"m", "i", "s", "s", "i", "n", "g">>) >>],
       [failure_type |-> "invalid_syntax",
        patterns |->
           << Lit(<<"s", "y", "n", "t", "a", "x">>) \o AnyStar
                  \o Lit(<<"e", "r", "r", "o", "r">>),
              Lit(<<"i", "n", "v", "a", "l", "i", "d">>) \o AnyStar
                  \o Lit(<<"c", "o", "m", "m", "a", "n", "d">>),
              Lit(<<"p", "a", "r", "s", "e">>) \o AnyStar
                  \o Lit(<<"e", "r", "r", "o", "r">>),
              Lit(<<"u", "n", "e", "x", "p", "e", "c", "t", "e", "d">>) \o AnyStar
                  \o Lit(<<"t", "o", "k", "e", "n">>) >>],
       [failure_type |-> "insufficient_privileges",
        patterns |->
           << Lit(<<"r", "e", "q", "u", "i", "r", "e", "s", " ", "e", "l", "e", "v", "a", "t", "i", "o", "n">>),
              Lit(<<"r", "u", "n", " ", "a", "s", " ", "a", "d", "m", "i", "n", "i", "s", "t", "r", "a", "t", "o", "r">>),
              Lit(<<"a", "d", "m", "i", "n">>) \o AnyStar
                  \o Lit(<<"r", "e", "q", "u", "i", "r", "e", "d">>),
              Lit(<<"e", "l", "e", "v", "a", "t", "e", "d">>) \o AnyStar
                  \o Lit(<<"p", "r", "i", "v", "i", "l", "e", "g", "e", "s">>) >>],
       [failure_type |-> "disk_space",
        patterns |->
           << Lit(<<"d", "i", "s", "k">>) \o AnyStar
                  \o Lit(<<"f", "u", "l", "l">>),
              Lit(<<"n", "o", "t", " ", "e", "n", "o", "u", "g", "h", " ", "s", "p", "a", "c", "e">>),
              Lit(<<"i", "n", "s", "u", "f", "f", "i", "c", "i", "e", "n", "t">>) \o AnyStar
                  \o Lit(<<"s", "p", "a", "c", "e">>),
              Lit(<<"o", "u", "t", " ", "o", "f">>) \o AnyStar
                  \o Lit(<<"s", "p", "a", "c", "e">>) >>] >>

\* A failure type read from the return code alone, the message unread.
return_code_failure_type(error_message, return_code) ==
    IF return_code = 5 THEN "permission_denied"
    ELSE IF return_code = 32 THEN "locked_file"
    ELSE IF return_code = 2 THEN "not_found"
    ELSE "unknown"

\* A detection in which the last category with a matching pattern wins.
last_match_failure_type(error_message, return_code) ==
    LET error_lower == Lower(error_message)
        hits == { k \in DOMAIN FailurePatterns :
                     \E n \in DOMAIN FailurePatterns[k].patterns :
                         Search(FailurePatterns[k].patterns[n], error_lower, TRUE) }
    IN  IF hits # {}
        THEN FailurePatterns[CHOOSE k \in hits : \A h \in hits : k >= h].failure_type
        ELSE IF return_code = 5 THEN "permission_denied"
        ELSE IF return_code = 32 THEN "locked_file"
        ELSE IF return_code = 2 THEN "not_found"
        ELSE "unknown"

\* FailureClassifier._detect_failure_type(error_message, return_code)
\* on the characters of the message.
_detect_failure_type(error_message, return_code) ==
    LET error_lower == Lower(error_message)
        hits == { k \in DOMAIN FailurePatterns :
                     \E n \in DOMAIN FailurePatterns[k].patterns :
                         Search(FailurePatterns[k].patterns[n], error_lower, TRUE) }
    IN  IF hits # {}
        THEN FailurePatterns[CHOOSE k \in hits : \A h \in hits : k <= h].failure_type
        ELSE IF return_code = 5 THEN "permission_denied"
        ELSE IF return_code = 32 THEN "locked_file"
        ELSE IF return_code = 2 THEN "not_found"
        ELSE "unknown"

\* The recovery guide of each failure type: severity and recoverable flag.
\* invalid_syntax has no guide of its own and gets the guide of unknown.
recovery_guides ==
    [ permission_denied       |-> [severity |-> "high",     recoverable |-> TRUE],
      locked_file             |-> [severity |-> "medium",   recoverable |-> TRUE],
      service_dependency      |-> [severity |-> "high",     recoverable |-> TRUE],
      corrupt_uninstall       |-> [severity |-> "high",     recoverable |-> TRUE],
      resource_in_use         |-> [severity |-> "medium",   recoverable |-> TRUE],
      network_error           |-> [severity |-> "medium",   recoverable |-> TRUE],
      insufficient_privileges |-> [severity |-> "critical", recoverable |-> TRUE],
      disk_space              |-> [severity |-> "critical", recoverable |-> TRUE],
      not_found               |-> [severity |-> "medium",   recoverable |-> TRUE],
      timeout                 |-> [severity |-> "low",      recoverable |-> TRUE],
      unknown                 |-> [severity |-> "medium",   recoverable |-> FALSE] ]

\* FailureClassifier._get_recovery_info(failure_type, operation_type)
_get_recovery_info(failure_type) ==
    IF failure_type \in DOMAIN recovery_guides
    THEN recovery_guides[failure_type]
    ELSE recovery_guides["unknown"]

\* FailureClassifier.classify(error_message, return_code, operation_type):
\* the FailureAnalysis, without its fixed recovery texts.
classify(error_message, return_code) ==
    LET failure_type == _detect_failure_type(CharsOfText(error_message), return_code)
    IN  [failure_type   |-> failure_type,
         original_error |-> error_message,
         severity       |-> _get_recovery_info(failure_type).severity,
         is_recoverable |-> _get_recovery_info(failure_type).recoverable]

\* failure_analysis=None
NoAnalysis == [failure_type |-> "none",
               original_error |-> <<>>,
               severity |-> "none",
               is_recoverable |-> FALSE]

(***************************************************************************)
(* Privilege checker: PrivilegeManager                                     *)
(***************************************************************************)

PrivilegeLevels == {"admin", "user", "unknown"}

admin_only_operations ==
    {"registry_write", "service_control", "system_restore",
     "driver_management", "scheduled_task_create", "windows_update"}

admin_preferred_operations ==
    {"app_uninstall", "disk_cleanup", "network_config", "firewall_config"}

\* operation_type.replace('_', ' ').title() for the operation types the
\* model calls check_operation with.
OperationTitle ==
    [ registry_write        |-> "Registry Write",
      service_control       |-> "Service Control",
      system_restore        |-> "System Restore",
      driver_management     |-> "Driver Management",
      scheduled_task_create |-> "Scheduled Task Create",
      windows_update        |-> "Windows Update",
      app_uninstall         |-> "App Uninstall",
      disk_cleanup          |-> "Disk Cleanup",
      network_config        |-> "Network Config",
      firewall_config       |-> "Firewall Config",
      general               |-> "General" ]

OperationTypes == DOMAIN OperationTitle

\* PrivilegeManager.is_admin()
is_admin(current_privilege) == current_privilege = "admin"

\* A privilege check that lets every operation proceed.
check_operation_permissive(current_privilege, operation_type, operation_name) ==
    [has_privilege |-> is_admin(current_privilege),
     current_level |-> current_privilege,
     required_level |-> "no_admin_needed",
     can_proceed |-> TRUE,
     degraded_mode |-> ~is_admin(current_privilege),
     message |-> <<"Ready to execute: ", OperationTitle[operation_type]>>,
     suggestions |-> <<>>]

\* PrivilegeManager.check_operation(operation_type, operation_name); the
\* pictograms of the messages are left out.
check_operation(current_privilege, operation_type, operation_name) ==
    LET op_name == IF operation_name # "" THEN operation_name
                   ELSE OperationTitle[operation_type]
        requirement ==
            IF operation_type \in admin_only_operations THEN "requires_admin"
            ELSE IF operation_type \in admin_preferred_operations THEN "prefers_admin"
            ELSE "no_admin_needed"
    IN  IF requirement = "requires_admin"
        THEN IF is_admin(current_privilege)
             THEN [has_privilege |-> TRUE,
                   current_level |-> current_privilege,
                   required_level |-> requirement,
                   can_proceed |-> TRUE,
                   degraded_mode |-> FALSE,
                   message |-> <<"Admin privileges detected. Ready to execute: ", op_name>>,
                   suggestions |-> <<>>]
             ELSE [has_privilege |-> FALSE,
                   current_level |-> current_privilege,
                   required_level |-> requirement,
                   can_proceed |-> FALSE,
                   degraded_mode |-> TRUE,
                   message |-> <<op_name, " requires administrator privileges. Running in analysis-only mode.">>,
                   suggestions |-> <<"Restart the application as Administrator",
                                     "Right-click -> 'Run as Administrator'",
                                     "Use PowerShell: Start-Process -Verb RunAs">>]
        ELSE IF requirement = "prefers_admin"
        THEN IF is_admin(current_privilege)
             THEN [has_privilege |-> TRUE,
                   current_level |-> current_privilege,
                   required_level |-> requirement,
                   can_proceed |-> TRUE,
                   degraded_mode |-> FALSE,
                   message |-> <<"Admin privileges detected. Full capabilities enabled for: ", op_name>>,
                   suggestions |-> <<>>]
             ELSE [has_privilege |-> FALSE,
                   current_level |-> current_privilege,
                   required_level |-> requirement,
                   can_proceed |-> TRUE,
                   degraded_mode |-> TRUE,
                   message |-> <<op_name, " works better with admin privileges. Some features may be limited.">>,
                   suggestions |-> <<"For full capabilities, restart as Administrator",
                                     "Current mode: Limited user permissions",
                                     "Some system changes may be restricted">>]
        ELSE [has_privilege |-> TRUE,
              current_level |-> current_privilege,
              required_level |-> requirement,
              can_proceed |-> TRUE,
              degraded_mode |-> FALSE,
              message |-> <<"Ready to execute: ", op_name>>,
              suggestions |-> <<>>]

(***************************************************************************)
(* Command executor: CommandExecutor                                       *)
(***************************************************************************)

\* What subprocess.run can do with a command: exit with a return code and
\* output, exceed the timeout, or raise (the shell cannot be started).
Outcomes ==
    { [kind |-> "exit", returncode |-> 0, stdout |-> "ok", stderr |-> ""],
      [kind |-> "exit", returncode |-> 1, stdout |-> "", stderr |-> "Access is denied"],
      [kind |-> "exit", returncode |-> 1, stdout |-> "cannot find path", stderr |-> ""],
      [kind |-> "exit", returncode |-> 5, stdout |-> "", stderr |-> ""],
      [kind |-> "exit", returncode |-> 1, stdout |-> "", stderr |-> "boom"],
      [kind |-> "exit", returncode |-> 5, stdout |-> "", stderr |-> "cannot find path"],
      [kind |-> "exit", returncode |-> 32, stdout |-> "", stderr |-> ""],
      [kind |-> "exit", returncode |-> 2, stdout |-> "", stderr |-> "boom"],
      [kind |-> "exit", returncode |-> 1, stdout |-> "", stderr |-> "missing file in use"],
      [kind |-> "exit", returncode |-> 1, stdout |-> "", stderr |-> "timed out: Access is denied"],
      [kind |-> "timeout", returncode |-> 0, stdout |-> "", stderr |-> ""],
      [kind |-> "exception", returncode |-> 0, stdout |-> "", stderr |-> "cannot find powershell"] }

\* str(timeout) for the timeouts the model uses.
TimeoutText == (1 :> "1" @@ 30 :> "30")

Timeouts == DOMAIN TimeoutText

\* The character the code strips from both ends of a command with
\* command.strip('`'); written as a word because the character cannot be
\* written in a string here.
Backtick == "<backtick>"

\* The stderr of a timed-out command.
TimeoutMessage(timeout) ==
    <<"Command timed out after ", TimeoutText[timeout], " seconds">>

\* The texts and return codes execute passes to FailureClassifier.classify:
\* the output of a failed subprocess, the timeout message, the text of an
\* exception, with the return code of the subprocess or -1.
ErrorMessages ==
    {Text(o.stderr) : o \in Outcomes} \cup {Text(o.stdout) : o \in Outcomes}
        \cup {TimeoutMessage(t) : t \in Timeouts}

ReturnCodes == {o.returncode : o \in Outcomes} \cup {-1}

\* FailureClassifier.classify, tabulated once over the arguments execute
\* passes to it.
FailureAnalyses ==
    [p \in ErrorMessages \X ReturnCodes |-> classify(p[1], p[2])] @@ <<>>

\* The bullet lines of the suggestions in the stderr of a privilege refusal.
SuggestionLines(suggestions) ==
    Join("\n", [k \in DOMAIN suggestions |-> <<"  * ", suggestions[k]>>])

\* A process that ran to its end counts as a success.
ran_to_completion(returncode) == TRUE

\* success=result.returncode == 0
exit_success(returncode) == returncode = 0

\* A dry-run result that does not tell the command.
dry_run_notice(command, priv_check) ==
    [success |-> TRUE,
     stdout |-> <<"[DRY RUN]">>,
     stderr |-> <<>>,
     return_code |-> 0,
     execution_time |-> 0,
     failure_analysis |-> NoAnalysis]

\* The ExecutionResult of a dry run: stdout is
\* f"[DRY RUN] Would execute: {command}{priv_msg}".
dry_run_result(command, priv_check) ==
    [success |-> TRUE,
     stdout |-> <<"[DRY RUN] Would execute: ">> \o Text(command)
                   \o (IF priv_check.degraded_mode
                       THEN <<"\n[Privilege Status: ">>
                                \o priv_check.message \o <<"]">>
                       ELSE <<>>),
     stderr |-> <<>>,
     return_code |-> 0,
     execution_time |-> 0,
     failure_analysis |-> NoAnalysis]

\* CommandExecutor.execute(command, timeout, operation_type, operation_name)
\* on an executor with the given dry_run flag and privilege level, when the
\* subprocess, if one is spawned, behaves as `outcome`.  The value tells the
\* ExecutionResult returned, the command as passed to the shell, whether a
\* subprocess was spawned and whether _log_execution was called.
execute(command, timeout, operation_type, operation_name, dry_run_flag, current_privilege, outcome) ==
    LET stripped == TextOf(Strip(StripChars(Chars[command], {Backtick})))
        priv_check == check_operation(current_privilege, operation_type, operation_name)
    IN  IF ~priv_check.can_proceed
        THEN [result |-> [success |-> FALSE,
                          stdout |-> <<>>,
                          stderr |-> priv_check.message \o <<"\n\nSuggestions:\n">>
                                        \o SuggestionLines(priv_check.suggestions),
                          return_code |-> -2,
                          execution_time |-> 0,
                          failure_analysis |-> NoAnalysis],
              command |-> stripped, spawned |-> FALSE, logged |-> FALSE]
        ELSE IF dry_run_flag
        THEN [result |-> dry_run_result(stripped, priv_check),
              command |-> stripped, spawned |-> FALSE, logged |-> FALSE]
        ELSE IF outcome.kind = "exit"
        THEN [result |-> [success |-> exit_success(outcome.returncode),
                          stdout |-> Text(outcome.stdout),
                          stderr |-> Text(outcome.stderr),
                          return_code |-> outcome.returncode,
                          execution_time |-> 0,
                          failure_analysis |->
                              IF outcome.returncode # 0
                              THEN FailureAnalyses[<<IF outcome.stderr # ""
                                                 THEN Text(outcome.stderr)
                                                 ELSE Text(outcome.stdout),
                                                 outcome.returncode>>]
                              ELSE NoAnalysis],
              command |-> stripped, spawned |-> TRUE, logged |-> TRUE]
        ELSE IF outcome.kind = "timeout"
        THEN [result |-> [success |-> FALSE,
                          stdout |-> <<>>,
                          stderr |-> TimeoutMessage(timeout),
                          return_code |-> -1,
                          execution_time |-> timeout,
                          failure_analysis |->
                              FailureAnalyses[<<TimeoutMessage(timeout), -1>>]],
              command |-> stripped, spawned |-> TRUE, logged |-> FALSE]
        ELSE [result |-> [success |-> FALSE,
                          stdout |-> <<>>,
                          stderr |-> Text(outcome.stderr),
                          return_code |-> -1,
                          execution_time |-> 0,
                          failure_analysis |-> FailureAnalyses[<<Text(outcome.stderr), -1>>]],
              command |-> stripped, spawned |-> TRUE, logged |-> FALSE]


(***************************************************************************)
(* State                                                                   *)
(***************************************************************************)

\* ---- CommandExecutor and PrivilegeManager ----
VARIABLES
    \* PrivilegeManager.current_privilege, detected once at construction
    current_privilege,
    \* CommandExecutor.dry_run
    dry_run,
    \* CommandExecutor.execution_history: entries [command, result]
    execution_history,
    \* the commands handed to subprocess.run, in order (the OS-call boundary)
    spawned,
    \* the arguments and the value of the latest CommandExecutor.execute
    \* call: <<>> before the first call, else one record
    last_call,
    \* the number of CommandExecutor.execute calls made so far
    exec_count,
    \* the arguments a direct caller of the executor passes to execute
    call

\* ---- CommandSandbox lists, and one command put to both validators ----
VARIABLES
    \* CommandSandbox.custom_denylist, CommandSandbox.custom_allowlist
    custom_denylist,
    custom_allowlist,
    \* the command string put to the validators
    subject,
    \* the latest value of CommandValidator.validate(subject): <<>> or one record
    classifier_verdict,
    \* the latest value of CommandSandbox.validate_command(subject)
    sandbox_verdict

\* ---- ConfirmationHandler ----
VARIABLES
    \* ConfirmationHandler.pending_confirmations: request id -> request
    pending_confirmations,
    \* the reading of the system clock (datetime.now().timestamp())
    now,
    \* the ids create_request has returned, in call order
    issued,
    \* the latest ConfirmationHandler call: operation, id, value returned
    conf_last,
    \* for each id approve has returned True for: the request as it was then
    approved_at,
    \* the ids deny has removed from the store
    denied_ids

\* ---- The entry points: cli.py, cli_phase3.py, the HTTP API ----
VARIABLES
    \* which program runs: "cli", "cli_phase3" or "api"
    agent,
    \* where process_request stands: "idle", or "awaiting_input" at input()
    pc,
    \* the request process_request is handling while it waits at input()
    current_request,
    \* the number of user requests received so far
    req_count,
    \* Phase3CLIAgent.dry_run_mode
    dry_run_mode,
    \* the value of the 'auto_backup' entry of UserPreferences
    auto_backup,
    \* the requests the user answered yes to, and those the user declined
    approved,
    declined,
    \* the CommandExecutor.execute calls made by the entry point: request,
    \* command, whether a subprocess was spawned
    exec_log,
    \* the entries written to the audit log, in order
    audit_log,
    \* the attempts an entry point made to back up before a destructive
    \* operation: the request and what the attempt gave
    backup_attempts,
    \* the commands of the uninstall plan execute_uninstall_plan has still
    \* to pass to the executor
    uninstall_queue,
    \* the UninstallPlan smart_uninstall_app is handling while it waits at
    \* input()
    uninstall_plan

\* ---- DecisionOrchestrator ----
VARIABLES
    \* DecisionOrchestrator.decision_history: the OrchestratedDecisions
    decision_history,
    \* DecisionOrchestrator.request_counter
    request_counter,
    \* the executor object callers pass to execute_with_orchestration
    executor_kind,
    \* the executor.execute calls the orchestrator has made: decision, command
    executor_calls,
    \* the latest orchestrator call: method, decision, value returned
    orch_last,
    \* the number of orchestrator calls made so far
    orch_ops

\* ---- BackupManager and the files it copies ----
VARIABLES
    \* the file system outside the backup directory: path -> entry
    fs,
    \* the directories under BackupManager.backup_root: backup id ->
    \* the items copied there and metadata.json
    backup_root,
    \* BackupManager.backups: backup id -> BackupInfo
    backups,
    \* the latest BackupManager call: method, backup id, value returned
    backup_last,
    \* for each BackupInfo create_backup has returned: the file system as
    \* it was when the call was made
    snapshots,
    \* the number of create_backup calls and of changes to originals so far
    backup_count,
    change_count

\* ---- AuditLogger and its file ----
VARIABLES
    \* the file at AuditLogger.audit_log_path: what each write has put
    \* there, in order (a whole line, or the part of a line a failing
    \* write left)
    audit_file,
    \* the latest AuditLogger call: method, whether it raised, what
    \* happened to its write
    audit_last,
    \* the number of log_* calls made so far
    audit_calls

executorVars ==
    <<current_privilege, dry_run, execution_history, spawned, last_call, exec_count>>

sandboxVars == <<custom_denylist, custom_allowlist>>

classifyVars == <<subject, classifier_verdict, sandbox_verdict>>

confirmVars == <<pending_confirmations, now>>

confirmHistory == <<issued, conf_last, approved_at, denied_ids>>

pipelineVars ==
    <<agent, pc, current_request, req_count, dry_run_mode, auto_backup,
      approved, declined, exec_log, audit_log, backup_attempts, uninstall_queue,
      uninstall_plan>>

orchVars ==
    <<decision_history, request_counter, executor_kind, executor_calls,
      orch_last, orch_ops>>

backupVars ==
    <<fs, backup_root, backups, backup_last, snapshots, backup_count, change_count>>

auditVars == <<audit_file, audit_last, audit_calls>>

vars == <<executorVars, call, sandboxVars, classifyVars, confirmVars, confirmHistory,
          pipelineVars, orchVars, backupVars, auditVars>>

\* What the actions of one component leave alone.
outsideExecutor == <<sandboxVars, classifyVars, confirmVars, confirmHistory, pipelineVars, orchVars, backupVars, auditVars>>

outsideClassify == <<executorVars, call, confirmVars, confirmHistory, pipelineVars, orchVars, backupVars, auditVars>>

outsideConfirm == <<executorVars, call, sandboxVars, classifyVars, pipelineVars, orchVars, backupVars, auditVars>>

outsidePipeline ==
    <<call, sandboxVars, classifyVars, confirmHistory, orchVars, backupVars,
      auditVars>>

outsideOrch ==
    <<executorVars, call, sandboxVars, classifyVars, confirmVars, confirmHistory,
      pipelineVars, backupVars, auditVars>>

outsideBackup ==
    <<executorVars, call, sandboxVars, classifyVars, pending_confirmations,
      confirmHistory, pipelineVars, orchVars, auditVars>>

outsideAudit ==
    <<executorVars, call, sandboxVars, classifyVars, confirmVars, confirmHistory,
      pipelineVars, orchVars, backupVars>>

(***************************************************************************)
(* Bounds of the model                                                     *)
(***************************************************************************)

\* CommandExecutor.execute calls in one run of the executor.
MaxCalls == 2

\* The timeout execute uses when the caller gives none.
DefaultTimeout == 30

\* create_request calls on one ConfirmationHandler; user requests in one
\* session of an entry point.
MaxRequests == 2

\* The last reading of the clock.
MaxClock == 2

\* DecisionOrchestrator calls in one run.
MaxOrchOps == 4

\* create_backup calls, and changes made to the originals, in one run.
MaxBackups == 2

MaxChanges == 1


\* AuditLogger log_* calls in one run.
MaxAuditCalls == 3
(***************************************************************************)
(* Command executor: state and calls                                       *)
(***************************************************************************)

\* A CommandExecutor right after construction, with one of the given
\* dry_run flags, in a process at one of the given privilege levels.
ExecutorInit(levels, flags) ==
    /\ current_privilege \in levels
    /\ dry_run \in flags
    /\ execution_history = <<>>
    /\ spawned = <<>>
    /\ last_call = <<>>
    /\ exec_count = 0

\* CommandExecutor._log_execution(command, result): the history entry.
\* (The line written to log_path is not modelled.)
_log_execution(history, command, result) ==
    Append(history, [command |-> command, result |-> result])

\* The effect of one CommandExecutor.execute call on the executor.
ExecutorCall(command, timeout, operation_type, operation_name, outcome) ==
    \E r \in {execute(command, timeout, operation_type, operation_name,
                      dry_run, current_privilege, outcome)} :
        /\ execution_history' =
               IF r.logged
               THEN _log_execution(execution_history, r.command, r.result)
               ELSE execution_history
        /\ spawned' = IF r.spawned THEN Append(spawned, r.command) ELSE spawned
        /\ last_call' = << [command |-> command,
                            timeout |-> timeout,
                            operation_type |-> operation_type,
                            operation_name |-> operation_name,
                            \* how the subprocess ended, when one was started
                            outcome |-> IF r.spawned THEN outcome.kind ELSE "none",
                            result |-> r.result] >>
        /\ exec_count' = exec_count + 1
        /\ UNCHANGED <<current_privilege, dry_run>>

\* The commands and operation names a direct caller passes to execute.
ExecCommands == {"Get-Process", "<backtick>Get-Date<backtick>"}

OperationNames == {"", "Stop service"}

NoCall == [command |-> "", timeout |-> DefaultTimeout,
           operation_type |-> "general", operation_name |-> ""]

\* An executor nobody calls directly.
NoDirectCall == call = NoCall

\* A caller invokes CommandExecutor.execute with its arguments; the
\* subprocess, if the call reaches it, behaves in one of the modelled ways.
Execute ==
    /\ exec_count < MaxCalls
    /\ \E outcome \in Outcomes :
           ExecutorCall(call.command, call.timeout, call.operation_type,
                        call.operation_name, outcome)
    /\ UNCHANGED <<call, outsideExecutor>>

(***************************************************************************)
(* Sandbox lists and the two validators                                    *)
(***************************************************************************)

\* CommandSandbox.__init__ with no configuration file: both lists empty.
SandboxInit ==
    /\ custom_denylist = {}
    /\ custom_allowlist = {}

\* The patterns a user adds to the sandbox lists.
ListPatterns == {"Get-Date", "format c:", "Set-Service"}

\* CommandSandbox.add_to_denylist(pattern)
add_to_denylist(pattern) ==
    /\ custom_denylist' = custom_denylist \cup {pattern}
    /\ UNCHANGED custom_allowlist

\* CommandSandbox.add_to_allowlist(pattern)
add_to_allowlist(pattern) ==
    /\ custom_allowlist' = custom_allowlist \cup {pattern}
    /\ UNCHANGED custom_denylist

\* CommandSandbox.validate_command(command) on the sandbox as it is now.
SandboxVerdict(command) ==
    validate_command(Chars[command], {Chars[p] : p \in custom_denylist})

\* No command has been put to the validators.
ClassifyInit(commands) ==
    /\ subject \in commands
    /\ classifier_verdict = <<>>
    /\ sandbox_verdict = <<>>

AddToDenylist ==
    /\ \E pattern \in ListPatterns : add_to_denylist(pattern)
    /\ UNCHANGED <<classifyVars, outsideClassify>>

AddToAllowlist ==
    /\ \E pattern \in ListPatterns : add_to_allowlist(pattern)
    /\ UNCHANGED <<classifyVars, outsideClassify>>

\* CommandValidator.validate is applied to the subject.
ClassifierValidate ==
    /\ classifier_verdict' = << validate(Chars[subject]) >>
    /\ UNCHANGED <<subject, sandbox_verdict, sandboxVars, outsideClassify>>

\* CommandSandbox.validate_command is applied to the subject.
SandboxValidate ==
    /\ sandbox_verdict' = << SandboxVerdict(subject) >>
    /\ UNCHANGED <<subject, classifier_verdict, sandboxVars, outsideClassify>>

(***************************************************************************)
(* Confirmation gate: ConfirmationHandler                                  *)
(***************************************************************************)

\* f"req_{datetime.now().timestamp()}": the id made from a clock reading.
RequestId(reading) == <<"req_", reading>>

EmptyStore == [id \in {} |-> id]

\* ConfirmationHandler.create_request at the given clock reading: the id
\* returned and the store afterwards (the store entry is assigned, an
\* entry already under the id is replaced).
create_request(store, reading, request) ==
    LET request_id == RequestId(reading)
    IN  [request_id |-> request_id,
         store |-> [id \in DOMAIN store \cup {request_id} |->
                        IF id = request_id THEN request ELSE store[id]]]

\* ConfirmationHandler.get_request(request_id): <<>> stands for None.
get_request(store, request_id) ==
    IF request_id \in DOMAIN store THEN <<store[request_id]>> ELSE <<>>

\* ConfirmationHandler.approve(request_id): the value returned; the store
\* is left as it is.
approve(store, request_id) == request_id \in DOMAIN store

\* ConfirmationHandler.deny(request_id, reason): the store afterwards.
deny(store, request_id) ==
    [id \in DOMAIN store \ {request_id} |-> store[id]]

NoOperation ==
    [op |-> "none", id |-> RequestId(0), result |-> FALSE, replaced |-> FALSE]

\* ConfirmationHandler.__init__, at the first clock reading.
ConfirmInit ==
    /\ pending_confirmations = EmptyStore
    /\ now = 1

ConfirmHistoryInit ==
    /\ issued = <<>>
    /\ conf_last = NoOperation
    /\ approved_at = EmptyStore
    /\ denied_ids = {}

\* The requests callers ask confirmation for.
ConfirmRequests ==
    { [operation |-> "list processes", command |-> "Get-Process",
       warnings |-> <<>>, risk_level |-> "safe"],
      [operation |-> "delete the test file", command |-> "Remove-Item test.txt",
       warnings |-> <<"This command will delete files/folders">>,
       risk_level |-> "caution"] }

\* The ids a caller can pass to approve and deny.
RequestIds == {RequestId(reading) : reading \in 1..MaxClock}

\* The clock moves on.
Tick ==
    /\ now < MaxClock
    /\ now' = now + 1
    /\ UNCHANGED <<pending_confirmations, confirmHistory, outsideConfirm>>

\* A caller creates a confirmation request.
CreateRequest ==
    /\ Len(issued) < MaxRequests
    /\ \E request \in ConfirmRequests :
         \E r \in {create_request(pending_confirmations, now, request)} :
           /\ pending_confirmations' = r.store
           /\ issued' = Append(issued, r.request_id)
           /\ conf_last' = [op |-> "create_request", id |-> r.request_id,
                            result |-> TRUE,
                            replaced |-> r.request_id \in DOMAIN pending_confirmations]
    /\ UNCHANGED <<now, approved_at, denied_ids, outsideConfirm>>

\* A caller approves a request id.
Approve ==
    /\ \E request_id \in RequestIds :
         \E ok \in {approve(pending_confirmations, request_id)} :
           /\ conf_last' = [op |-> "approve", id |-> request_id,
                            result |-> ok, replaced |-> FALSE]
           /\ approved_at' =
                  IF ok
                  THEN [id \in DOMAIN approved_at \cup {request_id} |->
                            IF id = request_id THEN pending_confirmations[id]
                            ELSE approved_at[id]]
                  ELSE approved_at
    /\ UNCHANGED <<pending_confirmations, now, issued, denied_ids, outsideConfirm>>

\* A caller denies a request id.
Deny ==
    /\ \E request_id \in RequestIds :
           /\ pending_confirmations' = deny(pending_confirmations, request_id)
           /\ conf_last' = [op |-> "deny", id |-> request_id,
                            result |-> FALSE, replaced |-> FALSE]
           /\ denied_ids' = IF request_id \in DOMAIN pending_confirmations
                            THEN denied_ids \cup {request_id}
                            ELSE denied_ids
    /\ UNCHANGED <<now, issued, approved_at, outsideConfirm>>

(***************************************************************************)
(* Entry points: CLIAgent (cli.py), Phase3CLIAgent (cli_phase3.py) and     *)
(* POST /api/execute (src/api/main.py)                                     *)
(***************************************************************************)

Agents == {"cli", "cli_phase3", "api"}

NoRequest == [number |-> 0, command |-> "", request_id |-> RequestId(0)]

\* The text of the n-th user request.
UserRequest(n) == <<"user request", n>>

\* UserPreferences._init_defaults: 'auto_backup' is the Python value True,
\* written "True" here; a value set over HTTP arrives as a string.
AutoBackupDefault == "True"

PreferenceValues == {"false", ""}

\* Python truth of a preference value.
Truthy(value) == value # ""

\* An UninstallPlan with nothing in it.
NoPlan == [app_found |-> FALSE, service_stop_commands |-> <<>>,
           uninstall_command |-> "", leftover_items |-> <<>>,
           cleanup_commands |-> <<>>]

\* No entry point is running.
PipelineInit(agents) ==
    /\ agent \in agents
    /\ pc = "idle"
    /\ current_request = NoRequest
    /\ req_count = 0
    /\ dry_run_mode = FALSE
    /\ auto_backup = AutoBackupDefault
    /\ approved = {}
    /\ declined = {}
    /\ exec_log = <<>>
    /\ audit_log = <<>>
    /\ backup_attempts = <<>>
    /\ uninstall_queue = <<>>
    /\ uninstall_plan = NoPlan

\* What LLMClient.generate_command gives back: a command (possibly empty),
\* or an exception.
LLMReplies ==
    {[ok |-> TRUE, command |-> c] :
        c \in {"", "Get-Process", "Remove-Item test.txt",
               "Remove-Item -Recurse C:\\", "takeown /f C:\\Windows"}}
        \cup {[ok |-> FALSE, command |-> ""]}

\* The commands a client posts to /api/execute.
ApiCommands == {"Get-Process", "Remove-Item -Recurse C:\\", "takeown /f C:\\Windows"}

\* How the subprocess of an entry point's command ends.
PipelineOutcomes ==
    { [kind |-> "exit", returncode |-> 0, stdout |-> "ok", stderr |-> ""],
      [kind |-> "exit", returncode |-> 1, stdout |-> "", stderr |-> "Access is denied"],
      [kind |-> "timeout", returncode |-> 0, stdout |-> "", stderr |-> ""] }

\* The entries AuditLogger writes (timestamps left out).  `request` is the
\* user request, or the confirmation request, the entry is about.
AuditEntry(event, n, command, flag) ==
    [event |-> event, request |-> n, command |-> command, flag |-> flag]

\* AuditLogger.log_request(user_request)
log_request(log, n) == Append(log, AuditEntry("user_request", n, "", FALSE))

\* AuditLogger.log_cancellation(user_request, command)
log_cancellation(log, n, command) ==
    Append(log, AuditEntry("command_cancelled", n, command, FALSE))

\* AuditLogger.log_confirmation(request_id, approved)
log_confirmation(log, n, is_approved) ==
    Append(log, AuditEntry("confirmation_decision", n, "", is_approved))

\* AuditLogger.log_execution(user_request, command, result)
log_execution(log, n, command, result) ==
    Append(log, AuditEntry("command_executed", n, command, result.success))

\* AuditLogger.log_error(error_type, error_message)
log_error(log, n) == Append(log, AuditEntry("error", n, "", FALSE))

\* The entry point calls CommandExecutor.execute(command) for request n.
PipelineExecute(n, command, outcome) ==
    /\ ExecutorCall(command, DefaultTimeout, "general", "", outcome)
    /\ exec_log' = Append(exec_log,
                     [request |-> n, command |-> command,
                      spawned |-> Len(spawned') > Len(spawned)])

\* CLIAgent.process_request up to the input() prompt (cli.py 43-86).
CLI_ProcessRequest ==
    /\ agent = "cli" /\ pc = "idle" /\ req_count < MaxRequests
    /\ req_count' = req_count + 1
    /\ \E reply \in LLMReplies :
         LET n == req_count + 1
             logged == log_request(audit_log, n)
         IN  IF ~reply.ok
             THEN \* generate_command raised: except Exception, log_error
                  /\ audit_log' = log_error(logged, n)
                  /\ UNCHANGED <<pc, current_request, pending_confirmations>>
             ELSE IF reply.command = ""
             THEN /\ audit_log' = logged
                  /\ UNCHANGED <<pc, current_request, pending_confirmations>>
             ELSE IF ~validate(Chars[reply.command]).is_safe
             THEN /\ audit_log' = logged
                  /\ UNCHANGED <<pc, current_request, pending_confirmations>>
             ELSE \E r \in {create_request(
                              pending_confirmations, now,
                              [operation |-> UserRequest(n),
                               command |-> reply.command,
                               warnings |-> validate(Chars[reply.command]).warnings,
                               risk_level |-> validate(Chars[reply.command]).risk_level])} :
                    /\ pending_confirmations' = r.store
                    /\ current_request' = [number |-> n, command |-> reply.command,
                                   request_id |-> r.request_id]
                    /\ pc' = "awaiting_input"
                    /\ audit_log' = logged
    /\ UNCHANGED <<agent, backup_attempts, uninstall_queue, uninstall_plan, now, dry_run_mode, auto_backup, approved, declined,
                   exec_log, executorVars, outsidePipeline>>

\* CLIAgent.process_request from the user's answer on (cli.py 88-122).
\* On yes the call self.executor.execute(command=..., timeout=30,
\* require_admin=...) names a parameter execute does not have: Python
\* raises TypeError before the body of execute runs, and the handler's
\* except clause logs the error.
CLI_Answer ==
    /\ agent = "cli" /\ pc = "awaiting_input"
    /\ \E yes \in BOOLEAN :
         IF yes
         THEN /\ approved' = approved \cup {current_request.number}
              /\ audit_log' = log_error(
                     log_confirmation(audit_log, current_request.number, TRUE),
                     current_request.number)
              /\ UNCHANGED <<pending_confirmations, declined>>
         ELSE /\ pending_confirmations' = deny(pending_confirmations, current_request.request_id)
              /\ audit_log' = log_confirmation(audit_log, current_request.number, FALSE)
              /\ declined' = declined \cup {current_request.number}
              /\ UNCHANGED approved
    /\ pc' = "idle"
    /\ current_request' = NoRequest
    /\ now' = now + 1
    /\ UNCHANGED <<agent, backup_attempts, uninstall_queue, uninstall_plan, req_count, dry_run_mode, auto_backup, exec_log,
                   executorVars, outsidePipeline>>

\* Phase3CLIAgent.process_request up to the input() prompt
\* (cli_phase3.py 407-457).
Phase3_ProcessRequest ==
    /\ agent = "cli_phase3" /\ pc = "idle" /\ req_count < MaxRequests
    /\ req_count' = req_count + 1
    /\ audit_log' = log_request(audit_log, req_count + 1)
    /\ \E reply \in LLMReplies :
         IF \/ ~reply.ok
            \/ reply.command = ""
            \/ ~SandboxVerdict(reply.command).allowed
            \/ dry_run_mode
         THEN \* an error printed, a refusal, or a simulation: return
              UNCHANGED <<pc, current_request>>
         ELSE /\ current_request' = [number |-> req_count + 1, command |-> reply.command,
                             request_id |-> RequestId(0)]
              /\ pc' = "awaiting_input"
    /\ UNCHANGED <<agent, backup_attempts, uninstall_queue, uninstall_plan, dry_run_mode, auto_backup, approved, declined, exec_log,
                   confirmVars, executorVars, outsidePipeline>>

\* Phase3CLIAgent.process_request from the user's answer on
\* (cli_phase3.py 459-488).
Phase3_Answer ==
    /\ agent = "cli_phase3" /\ pc = "awaiting_input"
    /\ \E yes \in BOOLEAN :
         IF ~yes
         THEN /\ audit_log' = log_cancellation(audit_log, current_request.number, current_request.command)
              /\ declined' = declined \cup {current_request.number}
              /\ UNCHANGED <<approved, exec_log, executorVars>>
         ELSE /\ approved' = approved \cup {current_request.number}
              /\ \E outcome \in PipelineOutcomes :
                     PipelineExecute(current_request.number, current_request.command, outcome)
              /\ audit_log' = log_execution(audit_log, current_request.number, current_request.command,
                                            last_call'[1].result)
              /\ UNCHANGED declined
    /\ pc' = "idle"
    /\ current_request' = NoRequest
    /\ now' = now + 1
    /\ UNCHANGED <<agent, backup_attempts, uninstall_queue, uninstall_plan, req_count, dry_run_mode, auto_backup,
                   pending_confirmations, outsidePipeline>>

\* Phase3CLIAgent.handle_special_command: "dry-run on" / "dry-run off"
\* (cli_phase3.py 150-158).
Phase3_SetDryRun ==
    /\ agent = "cli_phase3" /\ pc = "idle"
    /\ \E on \in BOOLEAN : dry_run_mode' = on
    /\ UNCHANGED <<agent, backup_attempts, uninstall_queue, uninstall_plan, pc, current_request, req_count, auto_backup, approved, declined,
                   exec_log, audit_log, confirmVars, executorVars, outsidePipeline>>

\* What a call gives that binds both parameters of the coroutine function
\* create_backup and is not awaited: a coroutine object, no backup made.
create_backup_unawaited(description) == [raised |-> FALSE, value |-> "coroutine"]

\* agent.backup_manager.create_backup(f"Pre-execution: ...") in
\* execute_command: one argument for the two parameters items and
\* operation, so the call raises TypeError before create_backup runs.
api_create_backup(description) == [raised |-> TRUE, value |-> "TypeError"]

\* POST /api/execute (src/api/main.py 280-372).  With dry_run the call
\* simulate_command(command, context) passes an argument too many, and for
\* a command the sandbox denies the call create_backup(text) passes one too
\* few: both raise TypeError and the handler answers with the error.  After
\* the executor has run, track_command (no such method) or the await of
\* log_execution's None raises, the audit entry of a failed command being
\* written before.
API_Execute ==
    /\ agent = "api" /\ req_count < MaxRequests
    /\ req_count' = req_count + 1
    /\ \E command \in ApiCommands, dry_run_requested \in BOOLEAN :
         LET n == req_count + 1
             backing_up == /\ ~dry_run_requested
                           /\ Truthy(auto_backup)
                           /\ ~SandboxVerdict(command).allowed
             backup == api_create_backup(command)
         IN  /\ backup_attempts' =
                    IF backing_up
                    THEN Append(backup_attempts, [request |-> n, value |-> backup.value])
                    ELSE backup_attempts
             /\ IF dry_run_requested \/ (backing_up /\ backup.raised)
                THEN UNCHANGED <<exec_log, audit_log, executorVars>>
                ELSE /\ \E outcome \in PipelineOutcomes :
                            PipelineExecute(n, command, outcome)
                     /\ audit_log' = IF last_call'[1].result.success
                                     THEN audit_log
                                     ELSE log_execution(audit_log, n, command,
                                                        last_call'[1].result)
    /\ UNCHANGED <<agent, pc, current_request, dry_run_mode, auto_backup, approved, declined,
                   uninstall_queue, uninstall_plan, confirmVars, outsidePipeline>>

\* POST /api/preferences with key 'auto_backup' (src/api/main.py 495-499).
API_UpdatePreference ==
    /\ agent = "api"
    /\ \E value \in PreferenceValues : auto_backup' = value
    /\ UNCHANGED <<agent, backup_attempts, uninstall_queue, uninstall_plan, pc, current_request, req_count, dry_run_mode, approved, declined,
                   exec_log, audit_log, confirmVars, executorVars, outsidePipeline>>


(***************************************************************************)
(* Phase3CLIAgent: "uninstall <app>"                                       *)
(***************************************************************************)

\* The plans SmartUninstaller.create_uninstall_plan gives: services are
\* looked for only when the application was found, and there is one
\* cleanup command per leftover item.  A leftover item is the dict
\* {"path": ..., "type": ..., "size": ..., "location": ...}, written here
\* as its path.
UninstallPlans ==
    { NoPlan,
      [app_found |-> TRUE,
       service_stop_commands |-> <<"Stop-Service -Name 'x' -Force">>,
       uninstall_command |-> "uninstall.exe /S",
       leftover_items |-> <<>>, cleanup_commands |-> <<>>],
      [app_found |-> TRUE, service_stop_commands |-> <<>>,
       uninstall_command |-> "uninstall.exe /S",
       leftover_items |-> <<"a">>,
       cleanup_commands |-> <<"Remove-Item -Path \"a\" -Force">>],
      [app_found |-> FALSE, service_stop_commands |-> <<>>,
       uninstall_command |-> "",
       leftover_items |-> <<"a">>,
       cleanup_commands |-> <<"Remove-Item -Path \"a\" -Force">>] }

\* The commands execute_uninstall_plan passes to the executor, in order:
\* the service stops, the uninstaller if there is one, the first five
\* cleanup commands.
PlanCommands(plan) ==
    plan.service_stop_commands
        \o (IF plan.uninstall_command = "" THEN <<>> ELSE <<plan.uninstall_command>>)
        \o SubSeq(plan.cleanup_commands, 1,
                  IF Len(plan.cleanup_commands) < 5 THEN Len(plan.cleanup_commands) ELSE 5)

\* The backup step of smart_uninstall_app: the argument
\* [str(item.path) for item in plan.leftover_items[:10]] reads the attribute
\* path of a dict, so it raises AttributeError before create_backup is
\* called.
phase3_create_backup(leftover_items) == [raised |-> TRUE, value |-> "AttributeError"]

\* smart_uninstall_app up to the input() prompt (cli_phase3.py 292-321).
Phase3_SmartUninstall ==
    /\ agent = "cli_phase3" /\ pc = "idle" /\ req_count < MaxRequests
    /\ req_count' = req_count + 1
    /\ \E plan \in UninstallPlans :
         IF ~plan.app_found /\ plan.leftover_items = <<>>
         THEN UNCHANGED <<pc, current_request, uninstall_plan>>
         ELSE /\ pc' = "awaiting_uninstall_answer"
              /\ current_request' = [number |-> req_count + 1, command |-> "",
                                     request_id |-> RequestId(0)]
              /\ uninstall_plan' = plan
    /\ UNCHANGED <<agent, dry_run_mode, auto_backup, approved, declined, exec_log,
                   audit_log, backup_attempts, uninstall_queue,
                   confirmVars, executorVars, outsidePipeline>>

\* smart_uninstall_app from the user's answer to the start of
\* execute_uninstall_plan (cli_phase3.py 321-351).  An exception of the
\* backup step leaves smart_uninstall_app and is printed by run().
Phase3_UninstallAnswer ==
    /\ agent = "cli_phase3" /\ pc = "awaiting_uninstall_answer"
    /\ \E yes \in BOOLEAN :
         LET n == current_request.number
             backing_up == Truthy(auto_backup) /\ uninstall_plan.leftover_items # <<>>
             backup == phase3_create_backup(uninstall_plan.leftover_items)
             commands == PlanCommands(uninstall_plan)
         IN  IF ~yes
             THEN /\ pc' = "idle"
                  /\ current_request' = NoRequest
                  /\ UNCHANGED <<approved, backup_attempts, uninstall_queue>>
             ELSE /\ approved' = approved \cup {n}
                  /\ backup_attempts' =
                         IF backing_up
                         THEN Append(backup_attempts, [request |-> n, value |-> backup.value])
                         ELSE backup_attempts
                  /\ IF (backing_up /\ backup.raised) \/ commands = <<>>
                     THEN /\ pc' = "idle"
                          /\ current_request' = NoRequest
                          /\ UNCHANGED uninstall_queue
                     ELSE /\ pc' = "uninstalling"
                          /\ uninstall_queue' = commands
                          /\ UNCHANGED current_request
    /\ uninstall_plan' = NoPlan
    /\ UNCHANGED <<agent, req_count, dry_run_mode, auto_backup, declined, exec_log,
                   audit_log, confirmVars, executorVars, outsidePipeline>>

\* execute_uninstall_plan: the next self.executor.execute(cmd) of its
\* loops (cli_phase3.py 354-389).
Phase3_UninstallStep ==
    /\ agent = "cli_phase3" /\ pc = "uninstalling"
    /\ \E outcome \in PipelineOutcomes :
           PipelineExecute(current_request.number, Head(uninstall_queue), outcome)
    /\ uninstall_queue' = Tail(uninstall_queue)
    /\ IF Tail(uninstall_queue) = <<>>
       THEN pc' = "idle" /\ current_request' = NoRequest
       ELSE UNCHANGED <<pc, current_request>>
    /\ UNCHANGED <<agent, req_count, dry_run_mode, auto_backup, approved, declined,
                   audit_log, backup_attempts, uninstall_plan,
                   confirmVars, outsidePipeline>>
(***************************************************************************)
(* Backup store: BackupManager                                             *)
(***************************************************************************)

\* The final names of the paths.
Names == {"x", "y"}

\* A path is <<directory, final name>>.
Paths == { <<"a", "x">>, <<"b", "x">>, <<"a", "y">> }

\* Path(item_path).name
PathName(path) == path[2]

\* What is at a path: nothing, a file with its content, a directory with
\* the files in it (name -> content), or something that exists and is
\* neither a regular file nor a directory (a device, a pipe, a socket).
EmptyDir == [n \in {} |-> ""]

Absent == [kind |-> "absent", data |-> "", children |-> EmptyDir]

File(data) == [kind |-> "file", data |-> data, children |-> EmptyDir]

Dir(children) == [kind |-> "dir", data |-> "", children |-> children]

Other == [kind |-> "other", data |-> "", children |-> EmptyDir]

\* os.path.getsize of a file with the given content: its length in bytes.
ContentSize == ("v1" :> 2 @@ "v2" :> 2 @@ "v3" :> 2)

\* BackupManager._get_dir_size: the sizes of the files of a directory,
\* added up.
RECURSIVE SumSizes(_, _)
SumSizes(children, names) ==
    IF names = {} THEN 0
    ELSE LET n == CHOOSE m \in names : TRUE
         IN  ContentSize[children[n]] + SumSizes(children, names \ {n})

_get_dir_size(entry) == SumSizes(entry.children, DOMAIN entry.children)

\* shutil.copy2(src, dst) of a file: what is at dst afterwards.  When dst
\* is a directory the file is copied into it under the source's name.
copy2(src, name, dst) ==
    IF dst.kind = "dir"
    THEN Dir([n \in DOMAIN dst.children \cup {name} |->
                 IF n = name THEN src.data ELSE dst.children[n]])
    ELSE File(src.data)

\* shutil.copytree(src, dst) raises when dst exists.
copytree_raises(dst) == dst.kind # "absent"

\* f"backup_{datetime.now().strftime('%Y%m%d_%H%M%S')}": the id made from
\* the clock reading, in whole seconds.
BackupId(second) == <<"backup_", second>>

NoItems == [n \in Names |-> Absent]

\* The loop of create_backup over the items.  acc holds the content of
\* the backup directory, the list backed_up_items and total_size so far,
\* and `copied`: the paths shutil.copy2 or shutil.copytree has copied.
RECURSIVE BackupItems(_, _, _)
BackupItems(items, files, acc) ==
    IF items = <<>>
    THEN acc
    ELSE LET item_path == Head(items)
             item_name == PathName(item_path)
             src == files[item_path]
         IN  IF src.kind = "absent"
             THEN \* not os.path.exists(item_path): skipped
                  BackupItems(Tail(items), files, acc)
             ELSE IF src.kind = "file"
             THEN BackupItems(Tail(items), files,
                      [dir_items |-> [acc.dir_items EXCEPT
                                         ![item_name] = copy2(src, item_name, @)],
                       total_size |-> acc.total_size + ContentSize[src.data],
                       backed_up_items |-> Append(acc.backed_up_items, item_path),
                       copied |-> Append(acc.copied, item_path)])
             ELSE IF src.kind = "dir"
             THEN IF copytree_raises(acc.dir_items[item_name])
                  THEN \* the exception is logged, the item is not listed
                       BackupItems(Tail(items), files, acc)
                  ELSE BackupItems(Tail(items), files,
                           [dir_items |-> [acc.dir_items EXCEPT ![item_name] = src],
                            total_size |-> acc.total_size + _get_dir_size(src),
                            backed_up_items |-> Append(acc.backed_up_items, item_path),
                            copied |-> Append(acc.copied, item_path)])
             ELSE \* neither isfile nor isdir: no branch of the if/elif
                  \* runs, and the path is appended all the same
                  BackupItems(Tail(items), files,
                      [acc EXCEPT !.backed_up_items = Append(@, item_path)])

\* BackupManager.create_backup(items, operation) at the given clock
\* second: the BackupInfo returned (<<>> for None), the backup directories
\* and the index afterwards.
create_backup(items, operation, second, files, root, index) ==
    LET backup_id == BackupId(second)
        \* backup_dir.mkdir(parents=True, exist_ok=True)
        existing == IF backup_id \in DOMAIN root THEN root[backup_id].items
                    ELSE NoItems
        copied == BackupItems(items, files,
                      [dir_items |-> existing, total_size |-> 0,
                       backed_up_items |-> <<>>, copied |-> <<>>])
    IN  IF copied.backed_up_items = <<>>
        THEN \* shutil.rmtree(backup_dir); return None
             [value |-> <<>>,
              copied |-> copied.copied,
              root |-> [id \in DOMAIN root \ {backup_id} |-> root[id]],
              index |-> index]
        ELSE LET backup_info ==
                     [backup_id |-> backup_id,
                      operation |-> operation,
                      items_backed_up |-> copied.backed_up_items,
                      backup_location |-> backup_id,
                      can_restore |-> TRUE,
                      size_bytes |-> copied.total_size]
             IN  [value |-> <<backup_info>>,
                  copied |-> copied.copied,
                  root |-> [id \in DOMAIN root \cup {backup_id} |->
                               IF id = backup_id
                               THEN [items |-> copied.dir_items,
                                     original_paths |-> copied.backed_up_items]
                               ELSE root[id]],
                  index |-> [id \in DOMAIN index \cup {backup_id} |->
                                IF id = backup_id THEN backup_info ELSE index[id]]]

\* The loop of restore_backup over metadata['original_paths'].
RECURSIVE RestoreItems(_, _, _)
RestoreItems(original_paths, dir_items, files) ==
    IF original_paths = <<>> THEN files
    ELSE LET original_path == Head(original_paths)
             backup_item == dir_items[PathName(original_path)]
         IN  IF backup_item.kind = "absent"
             THEN RestoreItems(Tail(original_paths), dir_items, files)
             ELSE \* the item at the original path is removed, then the
                  \* backup item is copied there
                  RestoreItems(Tail(original_paths), dir_items,
                               [files EXCEPT ![original_path] = backup_item])

\* BackupManager.restore_backup(backup_id): the value returned and the
\* file system afterwards.
restore_backup(backup_id, files, root, index) ==
    IF backup_id \notin DOMAIN index
    THEN [value |-> FALSE, files |-> files]
    ELSE IF index[backup_id].backup_location \notin DOMAIN root
    THEN [value |-> FALSE, files |-> files]
    ELSE [value |-> TRUE,
          files |-> RestoreItems(root[index[backup_id].backup_location].original_paths,
                                 root[index[backup_id].backup_location].items,
                                 files)]

NoBackupCall ==
    [op |-> "none", backup_id |-> BackupId(0), value |-> FALSE, replaced |-> FALSE,
     copied |-> <<>>, index_before |-> <<>>, items |-> <<>>]

\* BackupManager.__init__ with no backup index on disk, over one of the
\* given file systems.
BackupInit(file_systems) ==
    /\ fs \in file_systems
    /\ backup_root = [id \in {} |-> id]
    /\ backups = [id \in {} |-> id]
    /\ backup_last = NoBackupCall
    /\ snapshots = [id \in {} |-> id]
    /\ backup_count = 0
    /\ change_count = 0

\* The file systems the runs start from.
InitialFileSystems ==
    { (<<"a", "x">> :> File("v1") @@ <<"b", "x">> :> File("v2") @@ <<"a", "y">> :> Absent),
      (<<"a", "x">> :> File("v1") @@ <<"b", "x">> :> Absent @@ <<"a", "y">> :> File("v2")),
      (<<"a", "x">> :> File("v1") @@ <<"b", "x">> :> Dir("f" :> "v2") @@ <<"a", "y">> :> Dir(EmptyDir)),
      (<<"a", "x">> :> File("v1") @@ <<"b", "x">> :> Other @@ <<"a", "y">> :> Absent) }

NoFileSystem == [p \in Paths |-> Absent]

\* The item lists callers pass to create_backup.
ItemLists ==
    { << <<"a", "x">> >>,
      << <<"a", "x">>, <<"b", "x">> >>,
      << <<"a", "y">>, <<"b", "x">> >> }

\* What a destructive operation leaves at a path.
ChangedEntries == {Absent, File("v3")}

\* A caller makes a backup of some items.
CreateBackup ==
    /\ backup_count < MaxBackups
    /\ backup_count' = backup_count + 1
    /\ \E items \in ItemLists :
         \E r \in {create_backup(items, "cleanup", now, fs, backup_root, backups)} :
           /\ backup_root' = r.root
           /\ backups' = r.index
           \* replaced: the call changed the index record or the directory
           \* of a backup made before under the same id
           /\ backup_last' =
                  [op |-> "create_backup", backup_id |-> BackupId(now),
                   value |-> r.value # <<>>,
                   copied |-> r.copied,
                   index_before |-> backups,
                   items |-> items,
                   replaced |->
                       \/ /\ BackupId(now) \in DOMAIN backups
                          /\ r.index[BackupId(now)] # backups[BackupId(now)]
                       \/ /\ BackupId(now) \in DOMAIN backup_root
                          /\ \/ BackupId(now) \notin DOMAIN r.root
                             \/ r.root[BackupId(now)] # backup_root[BackupId(now)]]
           /\ snapshots' =
                  IF r.value = <<>> THEN snapshots
                  ELSE [id \in DOMAIN snapshots \cup {BackupId(now)} |->
                           IF id = BackupId(now) THEN fs ELSE snapshots[id]]
    /\ UNCHANGED <<fs, change_count, now, outsideBackup>>

\* The originals are modified or deleted.
ChangeOriginal ==
    /\ change_count < MaxChanges
    /\ change_count' = change_count + 1
    /\ \E path \in Paths, entry \in ChangedEntries :
           /\ fs[path] # entry
           /\ fs' = [fs EXCEPT ![path] = entry]
    /\ backup_last' = NoBackupCall
    /\ UNCHANGED <<backup_root, backups, snapshots, backup_count, now, outsideBackup>>

\* A caller restores a backup of the index.
RestoreBackup ==
    /\ \E backup_id \in DOMAIN backups :
         \E r \in {restore_backup(backup_id, fs, backup_root, backups)} :
           /\ fs' = r.files
           /\ backup_last' = [op |-> "restore_backup", backup_id |-> backup_id,
                              value |-> r.value, replaced |-> FALSE,
                              copied |-> <<>>, index_before |-> <<>>,
                              items |-> <<>>]
    /\ UNCHANGED <<backup_root, backups, snapshots, backup_count, change_count,
                   now, outsideBackup>>

\* A second passes.
TickSecond ==
    /\ now < MaxClock
    /\ now' = now + 1
    /\ UNCHANGED <<backupVars, outsideBackup>>


(***************************************************************************)
(* Audit log: AuditLogger                                                  *)
(***************************************************************************)

\* What can happen to the write of _write_entry: the line is written;
\* open() raises (no permission, no directory); json.dumps raises on an
\* entry it cannot serialise, after the file was opened for appending;
\* the write or the close raises after part of the line was written.
WriteFaults == {"none", "open_fails", "not_serializable", "partial_write"}

\* A file opened for writing instead of appending: what was there is
\* lost.
_write_entry_truncating(file, entry, fault) ==
    [file |-> IF fault = "none" THEN <<[entry |-> entry, whole |-> TRUE]>>
              ELSE IF fault = "partial_write" THEN <<[entry |-> entry, whole |-> FALSE]>>
              ELSE IF fault = "not_serializable" THEN <<>>
              ELSE file,
     raised |-> FALSE]

\* AuditLogger._write_entry(entry): open(path, 'a') and one write of the
\* line; every Exception is caught and logged.
_write_entry(file, entry, fault) ==
    [file |-> IF fault = "none" THEN Append(file, [entry |-> entry, whole |-> TRUE])
              ELSE IF fault = "partial_write"
              THEN Append(file, [entry |-> entry, whole |-> FALSE])
              ELSE file,
     raised |-> FALSE]

\* AuditLogger.__init__: the log file as it is found, empty here.
AuditInit ==
    /\ audit_file = <<>>
    /\ audit_last = [op |-> "none", raised |-> FALSE, fault |-> "none"]
    /\ audit_calls = 0

\* The requests and commands the callers log.
AuditRequests == {1}

AuditCommands == {"Get-Process", "Remove-Item test.txt"}

\* One log_* call: the entry is built and handed to _write_entry.
AuditCall(op, entry) ==
    /\ audit_calls < MaxAuditCalls
    /\ audit_calls' = audit_calls + 1
    /\ \E fault \in WriteFaults :
         \E r \in {_write_entry(audit_file, entry, fault)} :
           /\ audit_file' = r.file
           /\ audit_last' = [op |-> op, raised |-> r.raised, fault |-> fault]
    /\ UNCHANGED outsideAudit

\* AuditLogger.log_request(user_request)
LogRequest ==
    \E n \in AuditRequests :
        AuditCall("log_request", AuditEntry("user_request", n, "", FALSE))

\* AuditLogger.log_cancellation(user_request, command)
LogCancellation ==
    \E n \in AuditRequests, command \in AuditCommands :
        AuditCall("log_cancellation", AuditEntry("command_cancelled", n, command, FALSE))

\* AuditLogger.log_command_generation(request, command)
LogCommandGeneration ==
    \E n \in AuditRequests, command \in AuditCommands :
        AuditCall("log_command_generation", AuditEntry("command_generated", n, command, FALSE))

\* AuditLogger.log_confirmation(request_id, approved)
LogConfirmation ==
    \E n \in AuditRequests, is_approved \in BOOLEAN :
        AuditCall("log_confirmation", AuditEntry("confirmation_decision", n, "", is_approved))

\* AuditLogger.log_execution(user_request, command, result)
LogExecution ==
    \E n \in AuditRequests, command \in AuditCommands, success \in BOOLEAN :
        AuditCall("log_execution", AuditEntry("command_executed", n, command, success))

\* AuditLogger.log_error(error_type, error_message)
LogError ==
    \E n \in AuditRequests :
        AuditCall("log_error", AuditEntry("error", n, "", FALSE))
(***************************************************************************)
(* Orchestrator: DecisionOrchestrator                                      *)
(***************************************************************************)

\* DecisionStage, in the order of the enumeration.
DecisionStage ==
    << "intent_extraction", "safety_validation", "privilege_check", "planning",
       "user_confirmation", "backup_creation", "execution", "logging",
       "completed" >>

\* The position of a stage in the pipeline.
StageRank(stage) == CHOOSE k \in DOMAIN DecisionStage : DecisionStage[k] = stage

\* DecisionOutcome.DENIED and FAILED
TerminalOutcomes == {"denied", "failed"}

\* str(n) for the small counts that appear in reasonings.
NumText(n) == <<"0", "1", "2", "3">>[n + 1]

\* f"REQ-{time}-{request_counter:04d}" (the time of day is left out).
DecisionId(counter) == <<"REQ-", counter>>

\* OrchestratedDecision(request_id, user_intent, timestamp_start) with the
\* defaults of the dataclass; None is "none" or <<>>, timestamp_end is kept
\* as whether it is set.
NewDecision(counter, user_intent) ==
    [request_id |-> DecisionId(counter),
     user_intent |-> user_intent,
     current_stage |-> "intent_extraction",
     final_outcome |-> "none",
     decision_trail |-> <<>>,
     execution_plan |-> <<>>,
     execution_result |-> <<>>,
     timestamp_end_set |-> FALSE]

\* A recording that takes every outcome but approved for terminal.
record_decision_all_terminal(decision, stage, outcome, reasoning) ==
    [decision EXCEPT
        !.decision_trail = Append(@, [stage |-> stage, outcome |-> outcome,
                                      reasoning |-> reasoning]),
        !.current_stage = stage,
        !.final_outcome = IF outcome # "approved" THEN outcome ELSE @,
        !.timestamp_end_set = IF outcome # "approved" THEN TRUE ELSE @]

\* DecisionOrchestrator.record_decision(decision, stage, outcome, reasoning)
record_decision(decision, stage, outcome, reasoning) ==
    [decision EXCEPT
        !.decision_trail = Append(@, [stage |-> stage, outcome |-> outcome,
                                      reasoning |-> reasoning]),
        !.current_stage = stage,
        !.final_outcome = IF outcome \in TerminalOutcomes THEN outcome ELSE @,
        !.timestamp_end_set = IF outcome \in TerminalOutcomes THEN TRUE ELSE @]

\* The safety_checker objects a caller passes to validate_safety.  No
\* class of the repository has an is_dangerous or a check_protected_paths
\* method ("absent"); a duck-typed checker answers or raises.
SafetyCheckers ==
    { [is_dangerous |-> "absent", check_protected_paths |-> "absent"],
      [is_dangerous |-> "true",   check_protected_paths |-> "absent"],
      [is_dangerous |-> "false",  check_protected_paths |-> "false"],
      [is_dangerous |-> "raises", check_protected_paths |-> "absent"] }

\* DecisionOrchestrator.validate_safety(decision, commands, safety_checker):
\* the decision afterwards and the value returned.
validate_safety(decision, commands, safety_checker) ==
    IF commands # <<>> /\ safety_checker.is_dangerous = "raises"
    THEN [decision |-> record_decision(decision, "safety_validation", "failed",
                                       <<"Safety validation error: ", "checker raised">>),
          value |-> FALSE]
    ELSE IF commands # <<>> /\ (\/ safety_checker.is_dangerous = "true"
                                \/ safety_checker.check_protected_paths = "false")
    THEN [decision |-> record_decision(decision, "safety_validation", "needs_review",
                                       <<"Operation contains high-risk patterns">>),
          value |-> TRUE]
    ELSE [decision |-> record_decision(decision, "safety_validation", "approved",
                                       <<"No safety issues detected">>),
          value |-> TRUE]

\* DecisionOrchestrator.check_privileges(decision, operation_type,
\* operation_name) in a process at the given privilege level.
check_privileges(decision, privilege, operation_type, operation_name) ==
    LET priv_check == check_operation(privilege, operation_type, operation_name)
    IN  IF ~priv_check.can_proceed
        THEN [decision |-> record_decision(decision, "privilege_check", "denied",
                                           priv_check.message),
              value |-> FALSE]
        ELSE IF priv_check.degraded_mode
        THEN [decision |-> record_decision(decision, "privilege_check", "degraded",
                                           priv_check.message),
              value |-> TRUE]
        ELSE [decision |-> record_decision(decision, "privilege_check", "approved",
                                           priv_check.message),
              value |-> TRUE]

\* DecisionOrchestrator.create_execution_plan(decision, operation_type,
\* operation_name, commands) with no keyword arguments.
create_execution_plan(decision, operation_type, operation_name, commands) ==
    LET plan == [operation_type |-> operation_type,
                 operation_name |-> operation_name,
                 commands |-> commands,
                 risk_level |-> "medium",
                 is_reversible |-> TRUE,
                 requires_backup |-> FALSE,
                 requires_admin |-> FALSE]
    IN  [decision |-> record_decision(
                          [decision EXCEPT !.execution_plan = <<plan>>],
                          "planning", "approved",
                          <<"Execution plan created: ", NumText(Len(commands)),
                            " commands, risk=", plan.risk_level>>),
         value |-> plan]

\* DecisionOrchestrator.await_user_confirmation(decision, user_approved)
await_user_confirmation(decision, user_approved) ==
    IF user_approved
    THEN [decision |-> record_decision(decision, "user_confirmation", "approved",
                                       <<"User explicitly approved operation">>),
          value |-> TRUE]
    ELSE [decision |->
              [record_decision(decision, "user_confirmation", "denied",
                               <<"User declined operation">>)
                  EXCEPT !.final_outcome = "denied", !.timestamp_end_set = TRUE],
          value |-> FALSE]

\* The executor objects: the repository's CommandExecutor, whose execute
\* is a coroutine function (the call returns a coroutine object, no body
\* runs, and result.success raises AttributeError), or a synchronous
\* object with the same method, whose results are given.
ExecutorKinds == {"CommandExecutor", "synchronous"}

\* The number of executor.execute calls of the loop of
\* execute_with_orchestration: it stops after the first result that is not
\* a success, and with a coroutine object at the first call.
RECURSIVE CallsMade(_, _)
CallsMade(kind, successes) ==
    IF successes = <<>> THEN 0
    ELSE IF kind = "CommandExecutor" \/ ~Head(successes) THEN 1
    ELSE 1 + CallsMade(kind, Tail(successes))

\* DecisionOrchestrator.execute_with_orchestration(decision, executor):
\* the decision afterwards, the value returned, the commands passed to
\* executor.execute and what each call gave back (a coroutine object that
\* is never awaited runs nothing).  successes[k] tells whether a
\* synchronous executor reports success for the k-th command of the plan.
execute_with_orchestration(decision, kind, successes) ==
    IF decision.execution_plan = <<>>
    THEN [decision |-> record_decision(decision, "execution", "failed",
                                       <<"No execution plan available">>),
          value |-> [success |-> FALSE],
          called |-> <<>>,
          results |-> <<>>]
    ELSE LET commands == decision.execution_plan[1].commands
             n == CallsMade(kind, successes)
             called == SubSeq(commands, 1, n)
             results == [k \in 1..n |->
                            IF kind = "CommandExecutor" THEN "coroutine"
                            ELSE IF successes[k] THEN "success" ELSE "failure"]
             all_success == \A k \in 1..n : successes[k]
         IN  IF kind = "CommandExecutor" /\ commands # <<>>
             THEN [decision |-> record_decision(decision, "execution", "failed",
                                    <<"Execution exception: ",
                                      "'coroutine' object has no attribute 'success'">>),
                   value |-> [success |-> FALSE],
                   called |-> called,
                   results |-> results]
             ELSE [decision |->
                       [record_decision(decision, "execution",
                            IF all_success THEN "approved" ELSE "failed",
                            IF all_success
                            THEN <<"All commands executed successfully">>
                            ELSE <<"One or more commands failed">>)
                          EXCEPT !.execution_result = <<[success |-> all_success]>>],
                   value |-> [success |-> all_success],
                   called |-> called,
                   results |-> results]

\* A completion that works the final outcome out from the execution
\* result whether or not one is set already.
complete_decision_recomputed(decision) ==
    [decision EXCEPT
        !.current_stage = "completed",
        !.timestamp_end_set = TRUE,
        !.final_outcome =
            IF decision.execution_result # <<>>
               /\ decision.execution_result[1].success
            THEN "approved" ELSE "failed"]

\* DecisionOrchestrator.complete_decision(decision)
complete_decision(decision) ==
    [decision EXCEPT
        !.current_stage = "completed",
        !.timestamp_end_set = TRUE,
        !.final_outcome =
            IF @ # "none" THEN @
            ELSE IF decision.execution_result # <<>>
                    /\ decision.execution_result[1].success
            THEN "approved" ELSE "failed"]

\* DecisionOrchestrator.__init__
OrchInit(kinds) ==
    /\ decision_history = <<>>
    /\ request_counter = 0
    /\ executor_kind \in kinds
    /\ executor_calls = <<>>
    /\ orch_last = [op |-> "none", decision |-> 0, value |-> "None"]
    /\ orch_ops = 0

\* The arguments callers pass to the orchestrator.
OrchOperationTypes == {"general", "registry_write", "app_uninstall"}

CommandLists == { <<"Get-Process">>, <<"Get-Process", "Remove-Item test.txt">> }

\* Bookkeeping of one orchestrator call on decision d.
OrchStep(op, d, r) ==
    /\ decision_history' = [decision_history EXCEPT ![d] = r.decision]
    /\ orch_last' = [op |-> op, decision |-> d, value |-> r.value]
    /\ orch_ops' = orch_ops + 1

\* DecisionOrchestrator.create_decision(user_intent)
CreateDecision ==
    /\ orch_ops < MaxOrchOps
    /\ request_counter' = request_counter + 1
    /\ decision_history' =
           Append(decision_history,
                  NewDecision(request_counter + 1, "clean up"))
    /\ orch_last' = [op |-> "create_decision", decision |-> Len(decision_history) + 1,
                    value |-> NewDecision(request_counter + 1, "clean up")]
    /\ orch_ops' = orch_ops + 1
    /\ UNCHANGED <<executor_kind, executor_calls, outsideOrch>>

ValidateSafety ==
    /\ orch_ops < MaxOrchOps
    /\ \E d \in DOMAIN decision_history, commands \in CommandLists,
          safety_checker \in SafetyCheckers :
           OrchStep("validate_safety", d,
                    validate_safety(decision_history[d], commands,
                                    safety_checker))
    /\ UNCHANGED <<request_counter, executor_kind, executor_calls, outsideOrch>>

CheckPrivileges ==
    /\ orch_ops < MaxOrchOps
    /\ \E d \in DOMAIN decision_history, operation_type \in OrchOperationTypes :
           OrchStep("check_privileges", d,
                    check_privileges(decision_history[d], current_privilege,
                                     operation_type, ""))
    /\ UNCHANGED <<request_counter, executor_kind, executor_calls, outsideOrch>>

CreateExecutionPlan ==
    /\ orch_ops < MaxOrchOps
    /\ \E d \in DOMAIN decision_history, commands \in CommandLists :
           OrchStep("create_execution_plan", d,
                    create_execution_plan(decision_history[d], "general", "",
                                          commands))
    /\ UNCHANGED <<request_counter, executor_kind, executor_calls, outsideOrch>>

AwaitUserConfirmation ==
    /\ orch_ops < MaxOrchOps
    /\ \E d \in DOMAIN decision_history, user_approved \in BOOLEAN :
           OrchStep("await_user_confirmation", d,
                    await_user_confirmation(decision_history[d],
                                            user_approved))
    /\ UNCHANGED <<request_counter, executor_kind, executor_calls, outsideOrch>>

ExecuteWithOrchestration ==
    /\ orch_ops < MaxOrchOps
    /\ \E d \in DOMAIN decision_history :
         \E successes \in
               [1..(IF decision_history[d].execution_plan = <<>> THEN 0
                    ELSE Len(decision_history[d].execution_plan[1].commands))
                   -> BOOLEAN] :
           \E r \in {execute_with_orchestration(decision_history[d], executor_kind,
                                                successes)} :
             /\ OrchStep("execute_with_orchestration", d, r)
             /\ executor_calls' =
                    executor_calls \o
                        [k \in DOMAIN r.called |->
                            [decision |-> d, command |-> r.called[k],
                             result |-> r.results[k]]]
    /\ UNCHANGED <<request_counter, executor_kind, outsideOrch>>

CompleteDecision ==
    /\ orch_ops < MaxOrchOps
    /\ \E d \in DOMAIN decision_history :
           OrchStep("complete_decision", d,
                    [decision |-> complete_decision(decision_history[d]),
                     value |-> "None"])
    /\ UNCHANGED <<request_counter, executor_kind, executor_calls, outsideOrch>>

(***************************************************************************)
(* Specifications                                                          *)
(*                                                                         *)
(* Each specification runs one part of the program; the components it      *)
(* does not run stay as constructed.                                       *)
(***************************************************************************)

ExecutorIdle == ExecutorInit({"user"}, {FALSE}) /\ NoDirectCall

SandboxIdle == SandboxInit /\ ClassifyInit({""})

ConfirmIdle == ConfirmInit /\ ConfirmHistoryInit

PipelineIdle == PipelineInit({"cli"})

OrchIdle == OrchInit({"CommandExecutor"})

BackupIdle == BackupInit({NoFileSystem})

AuditIdle == AuditInit

\* A process at any privilege level constructs an executor and calls it
\* with one choice of arguments.
ExecInit ==
    /\ ExecutorInit(PrivilegeLevels, BOOLEAN)
    /\ call \in [command : ExecCommands, timeout : Timeouts,
                 operation_type : OperationTypes, operation_name : OperationNames]
    /\ SandboxIdle /\ ConfirmIdle /\ PipelineIdle /\ OrchIdle /\ BackupIdle /\ AuditIdle

ExecNext == Execute

SpecExec == ExecInit /\ [][ExecNext]_vars

\* One command string is put to the Risk Classifier and to the Sandbox
\* Policy, whose lists the user may extend.
ClassifyInitial ==
    /\ ClassifyInit(Commands)
    /\ SandboxInit
    /\ ExecutorIdle /\ ConfirmIdle /\ PipelineIdle /\ OrchIdle /\ BackupIdle /\ AuditIdle

ClassifyNext ==
    \/ ClassifierValidate
    \/ SandboxValidate
    \/ AddToDenylist
    \/ AddToAllowlist

SpecClassify == ClassifyInitial /\ [][ClassifyNext]_vars

\* Callers create, approve and deny confirmation requests on one
\* ConfirmationHandler while the clock advances.
ConfirmInitial ==
    /\ ConfirmInit
    /\ ConfirmHistoryInit
    /\ ExecutorIdle /\ SandboxIdle /\ PipelineIdle /\ OrchIdle /\ BackupIdle /\ AuditIdle

ConfirmNext ==
    \/ Tick
    \/ CreateRequest
    \/ Approve
    \/ Deny

SpecConfirm == ConfirmInitial /\ [][ConfirmNext]_vars

\* One of the entry points runs: a user (or an HTTP client) sends requests
\* and answers the confirmation prompts.
PipelineInitial ==
    /\ PipelineInit(Agents)
    /\ ExecutorIdle /\ SandboxIdle /\ ConfirmIdle /\ OrchIdle /\ BackupIdle /\ AuditIdle

PipelineNext ==
    \/ CLI_ProcessRequest
    \/ CLI_Answer
    \/ Phase3_ProcessRequest
    \/ Phase3_Answer
    \/ Phase3_SetDryRun
    \/ API_Execute
    \/ API_UpdatePreference
    \/ Phase3_SmartUninstall
    \/ Phase3_UninstallAnswer
    \/ Phase3_UninstallStep

SpecPipeline == PipelineInitial /\ [][PipelineNext]_vars

\* A caller drives decisions through the DecisionOrchestrator, calling its
\* methods in any order, in a process without administrator rights.
OrchInitial ==
    /\ OrchInit(ExecutorKinds)
    /\ ExecutorIdle /\ SandboxIdle /\ ConfirmIdle /\ PipelineIdle /\ BackupIdle /\ AuditIdle

OrchNext ==
    \/ CreateDecision
    \/ ValidateSafety
    \/ CheckPrivileges
    \/ CreateExecutionPlan
    \/ AwaitUserConfirmation
    \/ ExecuteWithOrchestration
    \/ CompleteDecision

SpecOrch == OrchInitial /\ [][OrchNext]_vars

\* Callers back items up, the originals change, and backups are restored,
\* while the seconds pass.
BackupInitial ==
    /\ BackupInit(InitialFileSystems)
    /\ ExecutorIdle /\ SandboxIdle /\ ConfirmIdle /\ PipelineIdle /\ OrchIdle /\ AuditIdle

BackupNext ==
    \/ CreateBackup
    \/ ChangeOriginal
    \/ RestoreBackup
    \/ TickSecond

SpecBackup == BackupInitial /\ [][BackupNext]_vars

\* Callers write to the audit log, and some of the writes fail.
AuditInitial ==
    /\ AuditInit
    /\ ExecutorIdle /\ SandboxIdle /\ ConfirmIdle /\ PipelineIdle /\ OrchIdle /\ BackupIdle

AuditNext ==
    \/ LogRequest
    \/ LogCancellation
    \/ LogCommandGeneration
    \/ LogConfirmation
    \/ LogExecution
    \/ LogError

SpecAudit == AuditInitial /\ [][AuditNext]_vars
(***************************************************************************)
(* Properties                                                              *)
(***************************************************************************)

\* C1: in every entry point, a command for which
\* CommandSandbox.validate_command answers allowed false is never run: no
\* CommandExecutor.execute call of the entry point spawns a subprocess for
\* it, whatever the user's approval, the auto-backup setting and the
\* dry-run flag.
C1_SandboxDenialIsFinal ==
    \A i \in DOMAIN exec_log :
        exec_log[i].spawned => SandboxVerdict(exec_log[i].command).allowed

\* C2: in every entry point, CommandExecutor.execute is called for a
\* request only after the user has approved that request.
C2_ExecuteOnlyAfterApproval ==
    \A i \in DOMAIN exec_log : exec_log[i].request \in approved

\* C3: for every request whose confirmation the user declined,
\* CommandExecutor.execute was not called and the audit log holds a
\* command_cancelled entry for the request.
C3_DeclineIsCancellation ==
    \A n \in declined :
        /\ \A i \in DOMAIN exec_log : exec_log[i].request # n
        /\ \E k \in DOMAIN audit_log :
               /\ audit_log[k].event = "command_cancelled"
               /\ audit_log[k].request = n

\* C4: for every command string, when CommandValidator.validate rates it
\* dangerous with is_safe false, CommandSandbox.validate_command answers
\* allowed false with risk level CRITICAL for the same string.
C4_DangerousImpliesCritical ==
    \A i \in DOMAIN classifier_verdict, j \in DOMAIN sandbox_verdict :
        (classifier_verdict[i].risk_level = "dangerous" /\ ~classifier_verdict[i].is_safe)
            => /\ ~sandbox_verdict[j].allowed
               /\ sandbox_verdict[j].risk_level = "CRITICAL"

\* C5: a command an entry point hands to the executor is one that neither
\* the Risk Classifier rates dangerous nor the Sandbox Policy denies: the
\* more restrictive of the two verdicts gates execution.
C5_MostRestrictiveVerdictGates ==
    \A i \in DOMAIN exec_log :
        /\ validate(Chars[exec_log[i].command]).risk_level # "dangerous"
        /\ SandboxVerdict(exec_log[i].command).allowed

\* The suggestions of a privilege check all appear, as bullet lines after
\* the "Suggestions:" heading, in a text.
CarriesSuggestions(text, suggestions) ==
    /\ \E i \in DOMAIN text : text[i] = "\n\nSuggestions:\n"
    /\ \A k \in DOMAIN suggestions :
           \E i \in DOMAIN text : i > 1 /\ text[i-1] = "  * " /\ text[i] = suggestions[k]

\* C6: when the process is not an administrator and the operation type
\* requires administrator rights, check_operation refuses (can_proceed is
\* false) and every execute call returns a failed result whose stderr
\* carries the suggestions, and no subprocess is spawned, whatever the
\* command, the timeout and the dry-run flag.
C6_PrivilegeRefusal ==
    (~is_admin(current_privilege) /\ call.operation_type \in admin_only_operations)
        => /\ ~check_operation(current_privilege, call.operation_type,
                               call.operation_name).can_proceed
           /\ spawned = <<>>
           /\ \A k \in DOMAIN last_call :
                  /\ ~last_call[k].result.success
                  /\ CarriesSuggestions(
                         last_call[k].result.stderr,
                         check_operation(current_privilege, call.operation_type,
                                         call.operation_name).suggestions)

\* A non-administrator has called execute twice for a registry write on a
\* dry-run executor with a non-default timeout.
C6_Witness ==
    /\ current_privilege = "user"
    /\ dry_run
    /\ call.operation_type = "registry_write"
    /\ call.timeout # DefaultTimeout
    /\ exec_count = 2
    /\ last_call # <<>>
    /\ last_call[1].result.return_code = -2


\* A DecisionPoint with outcome denied or failed is in the trail.
HasTerminalPoint(decision) ==
    \E k \in DOMAIN decision.decision_trail :
        decision.decision_trail[k].outcome \in TerminalOutcomes

\* The executor.execute calls made for decision d.
CallsFor(calls, d) == {k \in DOMAIN calls : calls[k].decision = d}

\* C7: once the trail of a decision holds a DecisionPoint with outcome
\* denied or failed, a later check_privileges, create_execution_plan,
\* await_user_confirmation or execute_with_orchestration on that decision
\* appends no DecisionPoint, leaves final_outcome as it is and makes no
\* executor.execute call.
C7_TerminalOutcomeStops ==
    [][\A d \in DOMAIN decision_history :
          (/\ HasTerminalPoint(decision_history[d])
           /\ orch_ops' = orch_ops + 1
           /\ orch_last'.decision = d
           /\ orch_last'.op \in {"check_privileges", "create_execution_plan",
                                 "await_user_confirmation",
                                 "execute_with_orchestration"})
          => /\ decision_history'[d].decision_trail = decision_history[d].decision_trail
             /\ decision_history'[d].final_outcome = decision_history[d].final_outcome
             /\ CallsFor(executor_calls', d) = CallsFor(executor_calls, d)]_vars

\* C8: a confirmation request leaves the pending state exactly once: a
\* deny(id) that follows a successful approve(id) leaves the request in the
\* store as it was when it was approved, and an approve(id) that follows a
\* deny(id) returns False.
C8_LeavesPendingOnce ==
    /\ (conf_last.op = "deny" /\ conf_last.id \in DOMAIN approved_at)
           => /\ conf_last.id \in DOMAIN pending_confirmations
              /\ pending_confirmations[conf_last.id] = approved_at[conf_last.id]
    /\ (conf_last.op = "approve" /\ conf_last.id \in denied_ids)
           => ~conf_last.result

\* C9: any two create_request calls on one ConfirmationHandler return
\* different ids, the calls made at the same clock reading included, and
\* no create_request replaces a record that is still in the store.
C9_UniqueRequestIds ==
    /\ \A i, j \in DOMAIN issued : i # j => issued[i] # issued[j]
    /\ conf_last.op = "create_request" => ~conf_last.replaced

\* C10: after create_backup has returned a record and the originals were
\* changed, a restore_backup of the record that returns True brings every
\* path of items_backed_up back to what it was when the backup was made.
C10_RestoreRoundTrip ==
    (backup_last.op = "restore_backup" /\ backup_last.value)
        => \A k \in DOMAIN backups[backup_last.backup_id].items_backed_up :
               LET path == backups[backup_last.backup_id].items_backed_up[k]
               IN  fs[path] = snapshots[backup_last.backup_id][path]



C12_UniqueBackupIds ==
    backup_last.op = "create_backup" => ~backup_last.replaced


\* The sizes of the items at the given paths, added up.
RECURSIVE SizeOfPaths(_, _)
SizeOfPaths(paths, files) ==
    IF paths = <<>> THEN 0
    ELSE (IF files[Head(paths)].kind = "file"
          THEN ContentSize[files[Head(paths)].data]
          ELSE _get_dir_size(files[Head(paths)]))
         + SizeOfPaths(Tail(paths), files)

\* C13: a create_backup call that copied at least one path returns a
\* record whose items_backed_up are exactly the paths it copied, in order,
\* and whose size_bytes is the size of those; a call that copied no path
\* returns no backup, leaves no backup directory under its id and leaves
\* the index as it was.
C13_RecordsWhatWasCopied ==
    backup_last.op = "create_backup" =>
        IF backup_last.copied # <<>>
        THEN /\ backup_last.value
             /\ backups[backup_last.backup_id].items_backed_up = backup_last.copied
             /\ backups[backup_last.backup_id].size_bytes
                    = SizeOfPaths(backup_last.copied, fs)
        ELSE /\ ~backup_last.value
             /\ backup_last.backup_id \notin DOMAIN backup_root
             /\ backups = backup_last.index_before


\* C14: every ExecutionResult execute returns, whether the subprocess
\* exited with zero or not, timed out or could not be started, the
\* privilege check refused or the run was dry, has success true exactly
\* when return_code is 0.
C14_SuccessIsZeroReturnCode ==
    /\ \A k \in DOMAIN last_call :
           last_call[k].result.success <=> last_call[k].result.return_code = 0
    /\ \A k \in DOMAIN execution_history :
           execution_history[k].result.success
               <=> execution_history[k].result.return_code = 0

\* The second call has returned after a subprocess exited with code 5.
C14_Witness ==
    /\ exec_count = 2
    /\ spawned # <<>>
    /\ last_call # <<>>
    /\ last_call[1].result.return_code = 5
    /\ ~last_call[1].result.success

\* C15: every ExecutionResult execute returns carries a FailureAnalysis
\* exactly when its return_code is not 0.
C15_AnalysisIffFailure ==
    \A k \in DOMAIN last_call :
        (last_call[k].result.failure_analysis # NoAnalysis)
            <=> (last_call[k].result.return_code # 0)


\* A text holds the piece "timed out" (the pieces of the timeout message
\* are joined here as the f-string joins them).
MentionsTimedOut(text) ==
    Contains(CharsOfText(text), <<"t", "i", "m", "e", "d", " ", "o", "u", "t">>)

\* C16: whenever the subprocess exceeds the timeout, for every timeout and
\* operation type, execute returns success false, return_code -1, a stderr
\* that contains "timed out" and a FailureAnalysis of type timeout.
C16_TimeoutResult ==
    \A k \in DOMAIN last_call :
        last_call[k].outcome = "timeout"
            => /\ ~last_call[k].result.success
               /\ last_call[k].result.return_code = -1
               /\ MentionsTimedOut(last_call[k].result.stderr)
               /\ last_call[k].result.failure_analysis.failure_type = "timeout"

\* A call with a one-second timeout for an operation that prefers
\* administrator rights, made by a non-administrator, has timed out.
C16_Witness ==
    /\ last_call # <<>>
    /\ last_call[1].timeout = 1
    /\ last_call[1].operation_type = "app_uninstall"
    /\ current_privilege = "user"
    /\ last_call[1].outcome = "timeout"
    /\ last_call[1].result.stderr = TimeoutMessage(1)

\* C17: after any sequence of execute calls the in-memory execution
\* history holds one entry per call, in call order.
C17_HistoryHoldsEveryCall ==
    Len(execution_history) = exec_count

\* C18 as stated: with the dry-run flag set, no subprocess is spawned and
\* every execute call returns success true with return_code 0 and a stdout
\* that tells the command.
C18_DryRunAlwaysSucceeds ==
    dry_run =>
        /\ spawned = <<>>
        /\ \A k \in DOMAIN last_call :
               /\ last_call[k].result.success
               /\ last_call[k].result.return_code = 0

\* The command as execute passes it on: backticks and white space
\* stripped from both ends.
StrippedCommand(command) == TextOf(Strip(StripChars(Chars[command], {Backtick})))

\* C18: with the dry-run flag set, no subprocess is spawned, and every
\* execute call the privilege check lets proceed returns success true with
\* return_code 0, an empty stderr and a stdout that starts with
\* "[DRY RUN] Would execute: " followed by the stripped command.
C18_DryRunWhenPermitted ==
    dry_run =>
        /\ spawned = <<>>
        /\ \A k \in DOMAIN last_call :
               check_operation(current_privilege, last_call[k].operation_type,
                               last_call[k].operation_name).can_proceed
                   => /\ last_call[k].result.success
                      /\ last_call[k].result.return_code = 0
                      /\ last_call[k].result.stderr = <<>>
                      /\ Len(last_call[k].result.stdout) >= 2
                      /\ last_call[k].result.stdout[1] = "[DRY RUN] Would execute: "
                      /\ last_call[k].result.stdout[2]
                             = StrippedCommand(last_call[k].command)

\* A dry-run executor has returned from two calls for a command wrapped in
\* backticks.
C18_Witness ==
    /\ dry_run
    /\ exec_count = 2
    /\ call.command = "<backtick>Get-Date<backtick>"
    /\ last_call # <<>>
    /\ last_call[1].result.success
    /\ last_call[1].result.stdout[2] = "Get-Date"


\* C19: the verdict of check_operation is a function of the operation
\* type and the privilege level alone (the operation name changes
\* neither can_proceed nor degraded_mode): an operation that requires
\* administrator rights is refused in degraded mode to a non-administrator,
\* one that prefers them proceeds in degraded mode, every other
\* combination proceeds undegraded; the level unknown counts as
\* non-administrator, and a refusal is always in degraded mode.
C19_PrivilegeVerdictTable ==
    LET verdict == check_operation(current_privilege, call.operation_type,
                                   call.operation_name)
        non_admin == current_privilege \in {"user", "unknown"}
    IN  /\ \A name \in OperationNames :
               LET other == check_operation(current_privilege,
                                            call.operation_type, name)
               IN  /\ other.can_proceed = verdict.can_proceed
                   /\ other.degraded_mode = verdict.degraded_mode
        /\ (call.operation_type \in admin_only_operations /\ non_admin)
               => (~verdict.can_proceed /\ verdict.degraded_mode)
        /\ (call.operation_type \in admin_preferred_operations /\ non_admin)
               => (verdict.can_proceed /\ verdict.degraded_mode)
        /\ (~non_admin \/ call.operation_type \notin
                              (admin_only_operations \cup admin_preferred_operations))
               => (verdict.can_proceed /\ ~verdict.degraded_mode)
        /\ verdict.can_proceed \/ verdict.degraded_mode

\* A process whose privilege level is unknown has run a command for an
\* operation that prefers administrator rights: the check let it proceed.
C19_Witness ==
    /\ current_privilege = "unknown"
    /\ call.operation_type = "disk_cleanup"
    /\ ~dry_run
    /\ last_call # <<>>
    /\ last_call[1].outcome = "exit"
    /\ last_call[1].result.success


\* The latest DecisionPoint of the trail records the user's decline.
DeclinedLast(decision) ==
    /\ decision.decision_trail # <<>>
    /\ LET last == decision.decision_trail[Len(decision.decision_trail)]
       IN  last.stage = "user_confirmation" /\ last.outcome = "denied"

\* C20: when the user declines in await_user_confirmation the point
\* recorded is denied and final_outcome is denied, not failed, and
\* complete_decision called on the declined decision leaves final_outcome
\* denied.
C20_DeclineIsDenied ==
    \A d \in DOMAIN decision_history :
        DeclinedLast(decision_history[d])
            => decision_history[d].final_outcome = "denied"

\* complete_decision has been called on a decision the user declined
\* after its safety validation had failed.
C20_Witness ==
    /\ orch_last.op = "complete_decision"
    /\ DeclinedLast(decision_history[orch_last.decision])
    /\ decision_history[orch_last.decision].current_stage = "completed"
    /\ Len(decision_history[orch_last.decision].decision_trail) >= 2
    /\ decision_history[orch_last.decision].decision_trail[1].outcome = "failed"


\* The command matches one of CommandValidator.DANGEROUS_PATTERNS.
MatchesDangerousSignature(command) ==
    \E k \in DOMAIN CommandValidator_DANGEROUS_PATTERNS :
        Search(CommandValidator_DANGEROUS_PATTERNS[k], Chars[command], TRUE)

\* The stripped command starts with one of CommandValidator.SAFE_COMMANDS.
StartsWithSafeCommand(command) ==
    \E safe_cmd \in CommandValidator_SAFE_COMMANDS :
        StartsWith(Strip(Chars[command]), safe_cmd)

\* C21: for every command that matches a dangerous signature,
\* CommandValidator.validate returns is_safe false, tier dangerous and one
\* blocking warning, also when the command starts with an allowlisted
\* safe command or contains admin or delete keywords.
C21_DangerousSignatureFirst ==
    \A i \in DOMAIN classifier_verdict :
        MatchesDangerousSignature(subject)
            => /\ ~classifier_verdict[i].is_safe
               /\ classifier_verdict[i].risk_level = "dangerous"
               /\ classifier_verdict[i].warnings
                      = <<"Command contains dangerous operation">>

\* The classifier has rated dangerous a command that starts with the
\* allowlisted Get-Process and matches the diskpart signature.
C21_Witness ==
    /\ subject = "Get-Process; diskpart"
    /\ StartsWithSafeCommand(subject)
    /\ MatchesDangerousSignature(subject)
    /\ classifier_verdict # <<>>
    /\ classifier_verdict[1].risk_level = "dangerous"


\* The conditions of the rules of CommandSandbox.validate_command, each
\* taken by itself, on the lower-cased and stripped command.
SandboxDangerous(command) ==
    \E k \in DOMAIN CommandSandbox_DANGEROUS_PATTERNS :
        Search(CommandSandbox_DANGEROUS_PATTERNS[k], Strip(Lower(Chars[command])), FALSE)

ProtectedDestructive(command) ==
    /\ \E path \in PROTECTED_PATHS :
           Contains(Strip(Lower(Chars[command])), Lower(path))
    /\ \E word \in DestructiveWords :
           Contains(Strip(Lower(Chars[command])), word)

InList(command, list) ==
    \E p \in list : Contains(Strip(Lower(Chars[command])), Lower(Chars[p]))

SafePrefix(command) ==
    \E safe_cmd \in CommandSandbox_SAFE_COMMANDS :
        Contains(FirstWord(Strip(Lower(Chars[command]))), safe_cmd)

HighRisk(command) ==
    \E high_risk \in HIGH_RISK_COMMANDS :
        Contains(Strip(Lower(Chars[command])), high_risk)

\* C22: for every command whose leading token is an allowlisted read-only
\* command and that matches no dangerous signature (and that no rule
\* ranked above the safe commands denies), CommandValidator.validate
\* returns is_safe true, tier safe and no warnings, and
\* CommandSandbox.validate_command returns allowed true with risk level
\* LOW.
C22_AllowlistedIsSafeAndLow ==
    ( /\ StartsWithSafeCommand(subject)
      /\ ~MatchesDangerousSignature(subject)
      /\ ~SandboxDangerous(subject)
      /\ ~ProtectedDestructive(subject)
      /\ ~InList(subject, custom_denylist) )
        => /\ \A i \in DOMAIN classifier_verdict :
                  /\ classifier_verdict[i].is_safe
                  /\ classifier_verdict[i].risk_level = "safe"
                  /\ classifier_verdict[i].warnings = <<>>
           /\ \A j \in DOMAIN sandbox_verdict :
                  /\ sandbox_verdict[j].allowed
                  /\ sandbox_verdict[j].risk_level = "LOW"


\* C23: for every command that matches no dangerous signature and does
\* not start with an allowlisted safe command, CommandValidator.validate
\* returns is_safe true, with tier caution exactly when the warning list
\* is non-empty and tier safe exactly when it is empty; Remove-Item on a
\* file is caution with at least one warning.
C23_CautionIffWarnings ==
    \A i \in DOMAIN classifier_verdict :
        (~MatchesDangerousSignature(subject) /\ ~StartsWithSafeCommand(subject))
            => /\ classifier_verdict[i].is_safe
               /\ classifier_verdict[i].risk_level \in {"caution", "safe"}
               /\ classifier_verdict[i].risk_level = "caution"
                      <=> classifier_verdict[i].warnings # <<>>
               /\ classifier_verdict[i].risk_level = "safe"
                      <=> classifier_verdict[i].warnings = <<>>
               /\ subject = "Remove-Item test.txt"
                      => /\ classifier_verdict[i].risk_level = "caution"
                         /\ Len(classifier_verdict[i].warnings) >= 1

\* The classifier has rated Remove-Item on a file.
C23_Witness ==
    /\ subject = "Remove-Item test.txt"
    /\ ~MatchesDangerousSignature(subject)
    /\ ~StartsWithSafeCommand(subject)
    /\ classifier_verdict # <<>>
    /\ classifier_verdict[1].risk_level = "caution"
    /\ classifier_verdict[1].warnings = <<"This command will delete files/folders">>


\* C24: for every command and every state of the custom denylist and
\* allowlist, validate_command returns the verdict of the first matching
\* rule in the order: dangerous pattern -> deny CRITICAL; protected path
\* with destructive verb -> deny CRITICAL; denylist entry -> deny HIGH;
\* allowlist entry or built-in safe-command prefix -> allow LOW; high-risk
\* command -> allow HIGH with requires_extra_confirmation; otherwise
\* allow MEDIUM.
C24_FirstMatchingRule ==
    [][ \A j \in DOMAIN sandbox_verdict' :
            sandbox_verdict' # sandbox_verdict
                => LET v == sandbox_verdict'[j]
                   IN  IF SandboxDangerous(subject) \/ ProtectedDestructive(subject)
                       THEN ~v.allowed /\ v.risk_level = "CRITICAL"
                       ELSE IF InList(subject, custom_denylist)
                       THEN ~v.allowed /\ v.risk_level = "HIGH"
                       ELSE IF InList(subject, custom_allowlist) \/ SafePrefix(subject)
                       THEN v.allowed /\ v.risk_level = "LOW"
                       ELSE IF HighRisk(subject)
                       THEN /\ v.allowed /\ v.risk_level = "HIGH"
                            /\ v.requires_extra_confirmation
                       ELSE v.allowed /\ v.risk_level = "MEDIUM" ]_vars


\* C25: for every decision and every sequence of orchestrator operations
\* on it, the stages of the DecisionPoints of its trail are strictly
\* increasing in the pipeline order, so that each stage contributes one
\* DecisionPoint at most and none is recorded after a later one.
C25_TrailStagesIncrease ==
    \A d \in DOMAIN decision_history :
        LET trail == decision_history[d].decision_trail
        IN  \A i, j \in DOMAIN trail :
                i < j => StageRank(trail[i].stage) < StageRank(trail[j].stage)


\* C27: record_decision sets final_outcome and the end timestamp exactly
\* when the outcome it records is denied or failed, and leaves both as
\* they were when it records approved, needs_review or degraded;
\* validate_safety and check_privileges return True when they record
\* needs_review or degraded.
C27_OnlyTerminalOutcomesEnd ==
    [][\A d \in DOMAIN decision_history :
          LET before == decision_history[d]
              after == decision_history'[d]
              point == after.decision_trail[Len(after.decision_trail)]
          IN  (/\ orch_ops' = orch_ops + 1
               /\ orch_last'.decision = d
               /\ Len(after.decision_trail) = Len(before.decision_trail) + 1)
              => /\ point.outcome \in TerminalOutcomes
                     => /\ after.final_outcome = point.outcome
                        /\ after.timestamp_end_set
                 /\ point.outcome \notin TerminalOutcomes
                     => /\ after.final_outcome = before.final_outcome
                        /\ after.timestamp_end_set = before.timestamp_end_set
                 /\ (/\ orch_last'.op \in {"validate_safety", "check_privileges"}
                     /\ point.outcome \in {"needs_review", "degraded"})
                     => orch_last'.value = TRUE]_vars

\* check_privileges has recorded degraded on a decision whose safety
\* validation asked for review, and returned True; no final outcome is
\* set.
C27_Witness ==
    /\ orch_last.op = "check_privileges"
    /\ orch_last.value = TRUE
    /\ LET decision == decision_history[orch_last.decision]
       IN  /\ Len(decision.decision_trail) = 2
           /\ decision.decision_trail[1].outcome = "needs_review"
           /\ decision.decision_trail[2].outcome = "degraded"
           /\ decision.final_outcome = "none"
           /\ ~decision.timestamp_end_set


\* The executor.execute calls a step has added.
NewCalls == SubSeq(executor_calls', Len(executor_calls) + 1, Len(executor_calls'))

\* C28: execute_with_orchestration passes the commands of the plan to the
\* executor in plan order and stops after the first command whose result
\* is not a success; it records one EXECUTION DecisionPoint, approved
\* exactly when every command that was executed succeeded and failed
\* otherwise; without an execution plan it records failed and calls no
\* executor.
C28_StopsAtFirstFailure ==
    [][\A d \in DOMAIN decision_history :
          LET before == decision_history[d]
              after == decision_history'[d]
              point == after.decision_trail[Len(after.decision_trail)]
              executed == {k \in DOMAIN NewCalls : NewCalls[k].result # "coroutine"}
          IN  (/\ orch_ops' = orch_ops + 1
               /\ orch_last'.decision = d
               /\ orch_last'.op = "execute_with_orchestration")
              => /\ Len(after.decision_trail) = Len(before.decision_trail) + 1
                 /\ point.stage = "execution"
                 /\ point.outcome \in {"approved", "failed"}
                 /\ before.execution_plan = <<>>
                      => NewCalls = <<>> /\ point.outcome = "failed"
                 /\ before.execution_plan # <<>>
                      => LET commands == before.execution_plan[1].commands
                         IN  /\ Len(NewCalls) <= Len(commands)
                             /\ \A k \in DOMAIN NewCalls :
                                    /\ NewCalls[k].command = commands[k]
                                    /\ k < Len(NewCalls) => NewCalls[k].result = "success"
                             /\ Len(NewCalls) < Len(commands)
                                    => NewCalls[Len(NewCalls)].result = "failure"
                             /\ point.outcome = "approved"
                                    <=> \A k \in executed : NewCalls[k].result = "success"]_vars


\* C26: create_backup is all-or-nothing: either every requested path that
\* exists (a file or a directory) has been copied and the record is in
\* the index, or no record is created and nothing of the backup remains
\* in storage; a copy that fails on one existing item never leaves a
\* record that lists the other items only.
C26_AllOrNothing ==
    (/\ backup_last.op = "create_backup"
     /\ \A k \in DOMAIN backup_last.items : fs[backup_last.items[k]].kind # "other")
        => LET items == backup_last.items
               existing == {k \in DOMAIN items : fs[items[k]].kind # "absent"}
               copied == {backup_last.copied[k] : k \in DOMAIN backup_last.copied}
           IN  \/ /\ backup_last.value
                  /\ backup_last.backup_id \in DOMAIN backups
                  /\ \A k \in existing :
                         /\ items[k] \in copied
                         /\ \E n \in DOMAIN backups[backup_last.backup_id].items_backed_up :
                                backups[backup_last.backup_id].items_backed_up[n] = items[k]
               \/ /\ ~backup_last.value
                  /\ backups = backup_last.index_before
                  /\ backup_last.backup_id \notin DOMAIN backup_root


\* The categories in their priority order.
CategoryOrder ==
    << "permission_denied", "locked_file", "service_dependency",
       "corrupt_uninstall", "resource_in_use", "network_error", "timeout",
       "not_found", "invalid_syntax", "insufficient_privileges", "disk_space" >>

\* A pattern of the category matches the lower-cased text.
MatchesCategory(text, category) ==
    \E k \in DOMAIN FailurePatterns :
        /\ FailurePatterns[k].failure_type = category
        /\ \E n \in DOMAIN FailurePatterns[k].patterns :
               Search(FailurePatterns[k].patterns[n], Lower(CharsOfText(text)), TRUE)

\* The first category of the priority order with a matching pattern,
\* then the exit codes, then unknown.
FirstMatchingCategory(text, return_code) ==
    LET matching == {k \in DOMAIN CategoryOrder : MatchesCategory(text, CategoryOrder[k])}
    IN  IF matching # {}
        THEN CategoryOrder[CHOOSE k \in matching : \A h \in matching : k <= h]
        ELSE IF return_code = 5 THEN "permission_denied"
        ELSE IF return_code = 32 THEN "locked_file"
        ELSE IF return_code = 2 THEN "not_found"
        ELSE "unknown"

\* The rule, tabulated over the texts and exit codes that reach the
\* classifier.
ExpectedCategory ==
    [p \in ErrorMessages \X ReturnCodes |-> FirstMatchingCategory(p[1], p[2])] @@ <<>>

\* C29: for every error text and exit code, the failure category is the
\* first one, in the order permission-denied, locked-file,
\* service-dependency, corrupt-uninstall, resource-in-use, network-error,
\* timeout, not-found, invalid-syntax, insufficient-privileges,
\* disk-space, that has a pattern matching the text; the exit codes 5, 32
\* and 2 are consulted only when no pattern matches, and the category is
\* unknown only when neither applies.
C29_FirstCategoryWins ==
    \A k \in DOMAIN last_call :
        LET result == last_call[k].result
        IN  result.failure_analysis # NoAnalysis
                => result.failure_analysis.failure_type
                       = ExpectedCategory[<<result.failure_analysis.original_error,
                                            result.return_code>>]

\* The classifier has been given a text that a locked-file pattern and a
\* not-found pattern both match, and one that a not-found pattern matches
\* together with exit code 5.
C29_Witness ==
    /\ Len(execution_history) = 2
    /\ execution_history[1].result.stderr = <<"missing file in use">>
    /\ execution_history[1].result.failure_analysis.failure_type = "locked_file"
    /\ MatchesCategory(<<"missing file in use">>, "not_found")
    /\ execution_history[2].result.stderr = <<"cannot find path">>
    /\ execution_history[2].result.return_code = 5
    /\ execution_history[2].result.failure_analysis.failure_type = "not_found"


\* C30: after any sequence of AuditLogger log_* calls, those whose write
\* fails included, the entries already in the audit log are unchanged and
\* in their order, each call has added one entry at most, at the end, and
\* every call returns normally to its caller.
C30_AuditLogAppendOnly ==
    [][audit_calls' = audit_calls + 1
          => /\ Len(audit_file') \in {Len(audit_file), Len(audit_file) + 1}
             /\ SubSeq(audit_file', 1, Len(audit_file)) = audit_file
             /\ ~audit_last'.raised]_vars

\* A log_* call whose open() failed has returned, after two entries had
\* been written; both are in the file.
C30_Witness ==
    /\ audit_calls = 3
    /\ audit_last.fault = "open_fails"
    /\ ~audit_last.raised
    /\ Len(audit_file) = 2
    /\ audit_file[1].whole /\ audit_file[2].whole
=============================================================================
